---- MODULE Spec2Model ----
(***************************************************************************)
(* Model of src/cli.rs (cargo-llvm-cov): Args::parse and its helpers.      *)
(*                                                                         *)
(* Argument-vector entries are records [ok, text]: `ok` says whether the   *)
(* OsString is valid Unicode, `text` is its text.  Tokens are TLA+ strings *)
(* and are taken apart character by character (SubSeq), the way lexopt     *)
(* 0.2 takes an argument apart.  The program counter pc follows the        *)
(* statements of Args::parse.                                              *)
(***************************************************************************)
EXTENDS Integers, Sequences, FiniteSets, TLC

VARIABLES
    argv,         \* env::args_os(): sequence of [ok, text]
    i,            \* raw_args: number of entries the iterator has yielded
    pc,           \* position in Args::parse
    args,         \* tokens before the first `--` (l.185)
    rest,         \* tokens after the first `--` (l.193)
    parser,       \* lexopt::Parser state (l.256)
    subcommand,   \* Option<Subcommand> (l.196); "None" when unset
    flags,        \* the boolean locals of l.201-253, by name
    opts,         \* the Option<_> locals of l.198-250, by name
    lists,        \* the Vec<String> locals of l.206-221, by name
    verbose,      \* l.254
    cargo_args,   \* l.195
    result,       \* "none" while running, then "Ok" | "Err" | "Exit0"
    error,        \* the error returned when result = "Err"
    term_verbose, \* the process-wide flag written by term::verbose::set (l.403)
    ret,          \* the Args value returned by Ok(Self {..}) (l.409-468)
    seen,         \* history: the lexopt Args yielded by parser.next() at l.257,
                  \* each with `at`, the index in args of the token it is from
    taken,        \* the last value returned by cov(), build() or manifest()
                  \* (l.471-481) on `ret`, with the accessor's name
    calls         \* history: the accessors called on `ret` so far

vars == <<argv, i, pc, args, rest, parser, subcommand, flags, opts, lists,
          verbose, cargo_args, result, error, term_verbose, ret, seen,
          taken, calls>>

----------------------------------------------------------------------------
(* Bounds of the model *)

\* longest argument list after the two envelope tokens
MaxLen == 4

\* letters `v` in the longest bundle of verbosity flags
ManyV == 85

----------------------------------------------------------------------------
(* Strings *)

CharAt(s, k) == SubSeq(s, k, k)

StartsWith(s, p) == Len(s) >= Len(p) /\ SubSeq(s, 1, Len(p)) = p

\* 1-based index of the first occurrence of character c in s, 0 if none
RECURSIVE FindFrom(_, _, _)
FindFrom(s, c, k) ==
    IF k > Len(s) THEN 0
    ELSE IF CharAt(s, k) = c THEN k
    ELSE FindFrom(s, c, k + 1)

RECURSIVE Repeat(_, _)
Repeat(c, n) == IF n <= 0 THEN "" ELSE c \o Repeat(c, n - 1)

Digits == {"0", "1", "2", "3", "4", "5", "6", "7", "8", "9"}

DigitVal(c) ==
    CASE c = "0" -> 0 [] c = "1" -> 1 [] c = "2" -> 2 [] c = "3" -> 3
      [] c = "4" -> 4 [] c = "5" -> 5 [] c = "6" -> 6 [] c = "7" -> 7
      [] c = "8" -> 8 [] c = "9" -> 9

AllDigits(s) == \A k \in 1..Len(s) : CharAt(s, k) \in Digits

RECURSIVE StripZeros(_)
StripZeros(s) ==
    IF Len(s) > 1 /\ CharAt(s, 1) = "0" THEN StripZeros(Tail(s)) ELSE s

\* a <= b for two digit strings without leading zeros
RECURSIVE DigitsLeq(_, _)
DigitsLeq(a, b) ==
    IF Len(a) # Len(b) THEN Len(a) < Len(b)
    ELSE IF Len(a) = 0 THEN TRUE
    ELSE IF CharAt(a, 1) # CharAt(b, 1)
         THEN DigitVal(CharAt(a, 1)) < DigitVal(CharAt(b, 1))
    ELSE DigitsLeq(Tail(a), Tail(b))

U32_MAX == "4294967295"
U64_MAX == "18446744073709551615"

----------------------------------------------------------------------------
(* Results *)

NoError == [kind |-> "none", index |-> 0, text |-> ""]
Err(kind, index, text) == [kind |-> kind, index |-> index, text |-> text]

ResOk(v) == [ok |-> TRUE, v |-> v, err |-> NoError]
ResErr(e) == [ok |-> FALSE, v |-> "", err |-> e]

\* from_str of a non-zero integer type: zero is refused as well
ParseUnsigned_nonzero(s, max) ==
    LET body == IF Len(s) > 0 /\ CharAt(s, 1) = "+" THEN Tail(s) ELSE s IN
    IF Len(body) = 0 \/ ~AllDigits(body)
    THEN ResErr(Err("ParseInt", 0, s))
    ELSE IF ~DigitsLeq(StripZeros(body), max) \/ StripZeros(body) = "0"
    THEN ResErr(Err("ParseInt", 0, s))
    ELSE ResOk(StripZeros(body))

\* <uN as FromStr>::from_str: an optional `+`, then one or more decimal
\* digits, the number within the type's range.  The value is kept as its
\* canonical decimal text (a u32 / u64 does not fit a TLC integer).
ParseUnsigned(s, max) ==
    LET body == IF Len(s) > 0 /\ CharAt(s, 1) = "+" THEN Tail(s) ELSE s IN
    IF Len(body) = 0 \/ ~AllDigits(body)
    THEN ResErr(Err("ParseInt", 0, s))
    ELSE IF ~DigitsLeq(StripZeros(body), max)
    THEN ResErr(Err("ParseInt", 0, s))
    ELSE ResOk(StripZeros(body))

\* <f64 as FromStr>::from_str restricted to the grammar [+-]digits[.digits];
\* the accepted text is kept as the value.
ParseFloat(s) ==
    LET body == IF Len(s) > 0 /\ CharAt(s, 1) \in {"+", "-"} THEN Tail(s) ELSE s
        dot == FindFrom(body, ".", 1)
        ip == IF dot = 0 THEN body ELSE SubSeq(body, 1, dot - 1)
        fp == IF dot = 0 THEN "" ELSE SubSeq(body, dot + 1, Len(body))
    IN  IF Len(ip) + Len(fp) > 0 /\ AllDigits(ip) /\ AllDigits(fp)
        THEN ResOk(s)
        ELSE ResErr(Err("ParseFloat", 0, s))

\* <Coloring as FromStr>::from_str (crate::term)
ParseColoring(s) ==
    IF s \in {"auto", "always", "never"}
    THEN ResOk(s)
    ELSE ResErr(Err("ParseColoring", 0, s))

\* lexopt::ValueExt::parse::<T>() for the target type T of a local
ParseValue(ty, s) ==
    CASE ty = "u32" -> ParseUnsigned(s, U32_MAX)
      [] ty = "u64" -> ParseUnsigned(s, U64_MAX)
      [] ty = "f64" -> ParseFloat(s)
      [] ty = "Coloring" -> ParseColoring(s)
      [] OTHER -> ResOk(s)      \* String, Utf8PathBuf: infallible

----------------------------------------------------------------------------
(* Subcommand *)

\* impl FromStr for Subcommand; "None" stands for Err
from_str(s) ==
    CASE s \in {"test", "t"} -> "Test"
      [] s \in {"run", "r"} -> "Run"
      [] s = "show-env" -> "ShowEnv"
      [] s = "clean" -> "Clean"
      [] s = "nextest" -> "Nextest"
      [] s = "demangle" -> "Demangle"
      [] OTHER -> "None"

SUBCMD == "llvm-cov"

----------------------------------------------------------------------------
(* lexopt::Parser, as Args::parse uses it.  The parser owns the vector it   *)
(* was built from (`source` is what is left of it); `state` is lexopt's    *)
(* State: None, PendingValue(val) after `--long=val`, Shorts(val, pos)     *)
(* inside a `-abc` token (pos is the 0-based offset of the next            *)
(* character), FinishedOpts after a `--`.  `last` is the last option       *)
(* yielded, as lexopt formats it in its errors.                            *)

\* lexopt::Parser::from_args(args)
from_args(a) ==
    [source |-> a, state |-> "None", val |-> "", pos |-> 0, last |-> ""]

LongArg(s) == [kind |-> "Long", s |-> s]
ShortArg(c) == [kind |-> "Short", s |-> c]
ValueArg(s) == [kind |-> "Value", s |-> s]
NoArg == [kind |-> "None", s |-> ""]

\* Parser::optional_value(): the value attached to the option just yielded
\* (`=val` of a long option, the rest of a short-option token, with one
\* leading `=` dropped), if any.  The parser state is reset in every case
\* but FinishedOpts.
optional_value(p) ==
    CASE p.state = "PendingValue" ->
            [some |-> TRUE, v |-> p.val,
             p |-> [p EXCEPT !.state = "None", !.val = "", !.pos = 0]]
      [] p.state = "Shorts" ->
            IF p.pos >= Len(p.val)
            THEN [some |-> FALSE, v |-> "",
                  p |-> [p EXCEPT !.state = "None", !.val = "", !.pos = 0]]
            ELSE LET from == IF CharAt(p.val, p.pos + 1) = "="
                             THEN p.pos + 1 ELSE p.pos
                 IN  [some |-> TRUE, v |-> SubSeq(p.val, from + 1, Len(p.val)),
                      p |-> [p EXCEPT !.state = "None", !.val = "", !.pos = 0]]
      [] OTHER -> [some |-> FALSE, v |-> "", p |-> p]

\* Parser::value(): the attached value if there is one, else the next entry
\* of the source whatever it looks like, else MissingValue.
value(p) ==
    LET o == optional_value(p) IN
    IF o.some THEN [ok |-> TRUE, v |-> o.v, p |-> o.p, err |-> NoError]
    ELSE IF o.p.source # <<>>
    THEN [ok |-> TRUE, v |-> Head(o.p.source),
          p |-> [o.p EXCEPT !.source = Tail(o.p.source)], err |-> NoError]
    ELSE [ok |-> FALSE, v |-> "", p |-> o.p,
          err |-> Err("MissingValue", 0, o.p.last)]

\* the part of Parser::next() that reads a fresh entry of the source
NextFromSource(p) ==
    IF p.source = <<>>
    THEN [kind |-> "End", arg |-> NoArg, p |-> p, err |-> NoError]
    ELSE
    LET a == Head(p.source)
        q == [p EXCEPT !.source = Tail(p.source)]
    IN
    IF a = "--"
    THEN IF q.source = <<>>
         THEN [kind |-> "End", arg |-> NoArg,
               p |-> [q EXCEPT !.state = "FinishedOpts"], err |-> NoError]
         ELSE [kind |-> "Arg", arg |-> ValueArg(Head(q.source)),
               p |-> [q EXCEPT !.state = "FinishedOpts", !.source = Tail(q.source)],
               err |-> NoError]
    ELSE IF StartsWith(a, "--")
    THEN LET eq == FindFrom(a, "=", 1)
             name == IF eq = 0 THEN SubSeq(a, 3, Len(a)) ELSE SubSeq(a, 3, eq - 1)
         IN  [kind |-> "Arg", arg |-> LongArg(name),
              p |-> IF eq = 0
                    THEN [q EXCEPT !.last = "--" \o name]
                    ELSE [q EXCEPT !.state = "PendingValue",
                                   !.val = SubSeq(a, eq + 1, Len(a)),
                                   !.last = "--" \o name],
              err |-> NoError]
    ELSE IF Len(a) > 1 /\ CharAt(a, 1) = "-"
    THEN \* State::Shorts(a, 1), then the first character is yielded
         [kind |-> "Arg", arg |-> ShortArg(CharAt(a, 2)),
          p |-> [q EXCEPT !.state = "Shorts", !.val = a, !.pos = 2,
                          !.last = "-" \o CharAt(a, 2)],
          err |-> NoError]
    ELSE [kind |-> "Arg", arg |-> ValueArg(a), p |-> q, err |-> NoError]

\* Parser::next()
next(p) ==
    CASE p.state = "PendingValue" ->
            [kind |-> "Err", arg |-> NoArg,
             p |-> [p EXCEPT !.state = "None", !.val = "", !.pos = 0],
             err |-> Err("UnexpectedValue", 0, p.last)]
      [] p.state = "Shorts" ->
            IF p.pos >= Len(p.val)
            THEN NextFromSource([p EXCEPT !.state = "None", !.val = "", !.pos = 0])
            ELSE IF CharAt(p.val, p.pos + 1) = "=" /\ p.pos > 1
            THEN [kind |-> "Err", arg |-> NoArg, p |-> optional_value(p).p,
                  err |-> Err("UnexpectedValue", 0, p.last)]
            ELSE [kind |-> "Arg", arg |-> ShortArg(CharAt(p.val, p.pos + 1)),
                  p |-> [p EXCEPT !.pos = p.pos + 1,
                                  !.last = "-" \o CharAt(p.val, p.pos + 1)],
                  err |-> NoError]
      [] p.state = "FinishedOpts" ->
            IF p.source = <<>>
            THEN [kind |-> "End", arg |-> NoArg, p |-> p, err |-> NoError]
            ELSE [kind |-> "Arg", arg |-> ValueArg(Head(p.source)),
                  p |-> [p EXCEPT !.source = Tail(p.source)], err |-> NoError]
      [] OTHER -> NextFromSource(p)

\* lexopt::Arg::unexpected()
unexpected(arg) ==
    IF arg.kind = "Long" THEN Err("UnexpectedOption", 0, "--" \o arg.s)
    ELSE IF arg.kind = "Short" THEN Err("UnexpectedOption", 0, "-" \o arg.s)
    ELSE Err("UnexpectedArgument", 0, arg.s)

----------------------------------------------------------------------------
(* The match of l.274-389: which local each own option sets *)

\* the parse_flag! arms: long name -> boolean local
LongFlag ==
    [n \in {"doctests", "no-run", "no-fail-fast", "ignore-run-fail", "lib",
            "bins", "examples", "tests", "benches", "all-targets", "doc",
            "workspace", "all", "json", "lcov", "text", "html", "open",
            "summary-only", "disable-default-ignore-filename-regex",
            "hide-instantiations", "no-cfg-coverage", "no-cfg-coverage-nightly",
            "no-report", "show-missing-lines", "include-build-script",
            "release", "coverage-target-only", "remap-path-prefix",
            "include-ffi"} |->
        CASE n = "doctests" -> "doctests"
          [] n = "no-run" -> "no_run"
          [] n = "no-fail-fast" -> "no_fail_fast"
          [] n = "ignore-run-fail" -> "ignore_run_fail"
          [] n = "lib" -> "lib"
          [] n = "bins" -> "bins"
          [] n = "examples" -> "examples"
          [] n = "tests" -> "tests"
          [] n = "benches" -> "benches"
          [] n = "all-targets" -> "all_targets"
          [] n = "doc" -> "doc"
          [] n \in {"workspace", "all"} -> "workspace"
          [] n = "json" -> "json"
          [] n = "lcov" -> "lcov"
          [] n = "text" -> "text"
          [] n = "html" -> "html"
          [] n = "open" -> "open"
          [] n = "summary-only" -> "summary_only"
          [] n = "disable-default-ignore-filename-regex" ->
                "disable_default_ignore_filename_regex"
          [] n = "hide-instantiations" -> "hide_instantiations"
          [] n = "no-cfg-coverage" -> "no_cfg_coverage"
          [] n = "no-cfg-coverage-nightly" -> "no_cfg_coverage_nightly"
          [] n = "no-report" -> "no_report"
          [] n = "show-missing-lines" -> "show_missing_lines"
          [] n = "include-build-script" -> "include_build_script"
          [] n = "release" -> "release"
          [] n = "coverage-target-only" -> "coverage_target_only"
          [] n = "remap-path-prefix" -> "remap_path_prefix"
          [] n = "include-ffi" -> "include_ffi"]

\* Short('r') | Long("release")
ShortFlag == [c \in {"r"} |-> "release"]

\* the parse_opt! arms: long name -> Option local
LongOpt ==
    [n \in {"color", "manifest-path", "output-path", "output-dir",
            "failure-mode", "ignore-filename-regex", "fail-under-lines",
            "fail-uncovered-lines", "fail-uncovered-regions",
            "fail-uncovered-functions", "jobs", "profile", "target"} |->
        CASE n = "color" -> "color"
          [] n = "manifest-path" -> "manifest_path"
          [] n = "output-path" -> "output_path"
          [] n = "output-dir" -> "output_dir"
          [] n = "failure-mode" -> "failure_mode"
          [] n = "ignore-filename-regex" -> "ignore_filename_regex"
          [] n = "fail-under-lines" -> "fail_under_lines"
          [] n = "fail-uncovered-lines" -> "fail_uncovered_lines"
          [] n = "fail-uncovered-regions" -> "fail_uncovered_regions"
          [] n = "fail-uncovered-functions" -> "fail_uncovered_functions"
          [] n = "jobs" -> "jobs"
          [] n = "profile" -> "profile"
          [] n = "target" -> "target"]

\* Short('j') | Long("jobs")
ShortOpt == [c \in {"j"} |-> "jobs"]

\* the `.push(parser.value()?.parse()?)` arms: long name -> Vec local
LongMulti ==
    [n \in {"bin", "example", "test", "bench", "package", "exclude",
            "exclude-from-test", "exclude-from-report"} |->
        CASE n = "bin" -> "bin"
          [] n = "example" -> "example"
          [] n = "test" -> "test"
          [] n = "bench" -> "bench"
          [] n = "package" -> "package"
          [] n = "exclude" -> "exclude"
          [] n = "exclude-from-test" -> "exclude_from_test"
          [] n = "exclude-from-report" -> "exclude_from_report"]

\* Short('p') | Long("package")
ShortMulti == [c \in {"p"} |-> "package"]

FlagNames == {LongFlag[n] : n \in DOMAIN LongFlag}
OptNames == {LongOpt[n] : n \in DOMAIN LongOpt}
MultiNames == {LongMulti[n] : n \in DOMAIN LongMulti}

\* the type of each Option local, from the struct fields of l.552-706
OptType ==
    [f \in OptNames |->
        CASE f = "color" -> "Coloring"
          [] f \in {"manifest_path", "output_path", "output_dir"} -> "Utf8PathBuf"
          [] f = "fail_under_lines" -> "f64"
          [] f \in {"fail_uncovered_lines", "fail_uncovered_regions",
                    "fail_uncovered_functions"} -> "u64"
          [] f = "jobs" -> "u32"
          [] OTHER -> "String"]

IsFlagArg(arg) ==
    \/ arg.kind = "Long" /\ arg.s \in DOMAIN LongFlag
    \/ arg.kind = "Short" /\ arg.s \in DOMAIN ShortFlag
IsOptArg(arg) ==
    \/ arg.kind = "Long" /\ arg.s \in DOMAIN LongOpt
    \/ arg.kind = "Short" /\ arg.s \in DOMAIN ShortOpt
IsMultiArg(arg) ==
    \/ arg.kind = "Long" /\ arg.s \in DOMAIN LongMulti
    \/ arg.kind = "Short" /\ arg.s \in DOMAIN ShortMulti
IsVerboseArg(arg) ==
    \/ arg.kind = "Short" /\ arg.s = "v"
    \/ arg.kind = "Long" /\ arg.s = "verbose"
IsVersionArg(arg) ==
    \/ arg.kind = "Short" /\ arg.s = "V"
    \/ arg.kind = "Long" /\ arg.s = "version"
IsHelpArg(arg) ==
    \/ arg.kind = "Short" /\ arg.s = "h"
    \/ arg.kind = "Long" /\ arg.s = "help"

\* the local an own option's arm works on
LocalOf(arg) ==
    CASE arg.kind = "Long" /\ arg.s \in DOMAIN LongFlag -> LongFlag[arg.s]
      [] arg.kind = "Short" /\ arg.s \in DOMAIN ShortFlag -> ShortFlag[arg.s]
      [] arg.kind = "Long" /\ arg.s \in DOMAIN LongOpt -> LongOpt[arg.s]
      [] arg.kind = "Short" /\ arg.s \in DOMAIN ShortOpt -> ShortOpt[arg.s]
      [] arg.kind = "Long" /\ arg.s \in DOMAIN LongMulti -> LongMulti[arg.s]
      [] arg.kind = "Short" /\ arg.s \in DOMAIN ShortMulti -> ShortMulti[arg.s]
      [] OTHER -> ""

----------------------------------------------------------------------------
(* Helpers of l.848-886 *)

format_flag(flag) ==
    IF flag.kind = "Long" THEN "--" \o flag.s ELSE "-" \o flag.s

multi_arg(flag) == Err("MultiArg", 0, format_flag(flag))

\* requires(flag, requires): the error text names the flag and the list of
\* alternatives (one, `either a or b`, or a comma list ending in `or`)
RECURSIVE JoinComma(_)
JoinComma(fs) ==
    IF Len(fs) = 1 THEN "or " \o fs[1] ELSE fs[1] \o ", " \o JoinComma(Tail(fs))

requires(flag, req) ==
    LET with == CASE Len(req) = 1 -> req[1]
                  [] Len(req) = 2 -> "either " \o req[1] \o " or " \o req[2]
                  [] OTHER -> JoinComma(req)
    IN  Err("Requires", 0, flag \o " can only be used together with " \o with)

conflicts(a, b) == Err("Conflicts", 0, a \o " may not be used together with " \o b)

----------------------------------------------------------------------------
(* The locals of Args::parse as one record, and the arms of the match.     *)
(* Each arm maps the locals to the locals after it; `status` is "go" when  *)
(* the loop continues, "Err" when the arm returns an error (in `err`),     *)
(* "Exit0" when it calls std::process::exit(0).                            *)

Some(v) == [some |-> TRUE, v |-> v]
None == [some |-> FALSE, v |-> ""]

Fail(L, e) == [L EXCEPT !.status = "Err", !.err = e]

\* parse_opt! leaving the option absent when its value does not convert
parse_opt_lenient(L, arg, opt) ==
    IF L.opts[opt].some
    THEN Fail(L, multi_arg(arg))
    ELSE LET v == value(L.parser) IN
         IF ~v.ok THEN Fail([L EXCEPT !.parser = v.p], v.err)
         ELSE LET c == ParseValue(OptType[opt], v.v) IN
              IF ~c.ok THEN [L EXCEPT !.parser = v.p]
              ELSE [L EXCEPT !.parser = v.p, !.opts[opt] = Some(c.v)]

\* parse_opt!($opt), l.258-265
parse_opt(L, arg, opt) ==
    IF L.opts[opt].some
    THEN Fail(L, multi_arg(arg))
    ELSE LET v == value(L.parser) IN
         IF ~v.ok THEN Fail([L EXCEPT !.parser = v.p], v.err)
         ELSE LET c == ParseValue(OptType[opt], v.v) IN
              IF ~c.ok THEN Fail([L EXCEPT !.parser = v.p], c.err)
              ELSE [L EXCEPT !.parser = v.p, !.opts[opt] = Some(c.v)]

\* parse_flag! without the test of l.268: a repeated flag is a no-op
parse_flag_idempotent(L, arg, flag) == [L EXCEPT !.flags[flag] = TRUE]

\* parse_flag! refusing a second output format with conflicts(), l.883
parse_flag_exclusive(L, arg, flag) ==
    LET formats == {"json", "lcov", "text", "html"} IN
    IF L.flags[flag]
    THEN Fail(L, multi_arg(arg))
    ELSE IF flag \in formats /\ \E g \in formats \ {flag} : L.flags[g]
    THEN Fail(L, conflicts(format_flag(arg),
                           "--" \o (CHOOSE g \in formats \ {flag} : L.flags[g])))
    ELSE [L EXCEPT !.flags[flag] = TRUE]

\* parse_flag!($flag), l.266-272
parse_flag(L, arg, flag) ==
    IF L.flags[flag]
    THEN Fail(L, multi_arg(arg))
    ELSE [L EXCEPT !.flags[flag] = TRUE]

\* the push of l.283-298 testing at once, for --exclude, what l.397 tests
\* after the loop
push_value_eager(L, arg, vec) ==
    LET v == value(L.parser) IN
    IF ~v.ok THEN Fail([L EXCEPT !.parser = v.p], v.err)
    ELSE IF vec = "exclude" /\ ~L.flags["workspace"]
    THEN Fail([L EXCEPT !.parser = v.p], requires("--exclude", <<"--workspace">>))
    ELSE [L EXCEPT !.parser = v.p, !.lists[vec] = Append(@, v.v)]

\* the push of l.283-298 skipping a value the list already holds
push_value_dedup(L, arg, vec) ==
    LET v == value(L.parser) IN
    IF ~v.ok THEN Fail([L EXCEPT !.parser = v.p], v.err)
    ELSE IF \E k \in DOMAIN L.lists[vec] : L.lists[vec][k] = v.v
    THEN [L EXCEPT !.parser = v.p]
    ELSE [L EXCEPT !.parser = v.p, !.lists[vec] = Append(@, v.v)]

\* $vec.push(parser.value()?.parse()?), l.283-298
push_value(L, arg, vec) ==
    LET v == value(L.parser) IN
    IF ~v.ok THEN Fail([L EXCEPT !.parser = v.p], v.err)
    ELSE [L EXCEPT !.parser = v.p, !.lists[vec] = Append(@, v.v)]

\* Short('v') | Long("verbose") => verbose += 1, l.333
count_verbose(L) == [L EXCEPT !.verbose = @ + 1]

\* the help arms forwarding the flag to cargo instead of exiting
help_forwarded(L) == [L EXCEPT !.cargo_args = Append(@, "--help")]

\* Short('h') / Long("help") if subcommand.is_none(), l.335-342
help(L) == [L EXCEPT !.status = "Exit0"]

\* the version arm without the test of l.344: it exits after a keyword too
version_anywhere(L) == [L EXCEPT !.status = "Exit0"]

\* Short('V') | Long("version"), l.343-350
version(L) ==
    IF L.subcommand = "None"
    THEN [L EXCEPT !.status = "Exit0"]
    ELSE Fail(L, Err("UnexpectedVersion", 0, "--version"))

\* the long passthrough arm taking a detached bare value as the flag's
passthrough_long_detached(L, flag) ==
    LET o == optional_value(L.parser)
        v == value(o.p)
    IN  IF o.some
        THEN [L EXCEPT !.parser = o.p,
                       !.cargo_args = Append(@, "--" \o flag \o "=" \o o.v)]
        ELSE IF v.ok /\ ~StartsWith(v.v, "-")
        THEN [L EXCEPT !.parser = v.p,
                       !.cargo_args = Append(@, "--" \o flag) \o <<v.v>>]
        ELSE [L EXCEPT !.parser = o.p, !.cargo_args = Append(@, "--" \o flag)]

\* the long passthrough arm dropping the attached value
passthrough_long_bare(L, flag) ==
    LET o == optional_value(L.parser) IN
    [L EXCEPT !.parser = o.p, !.cargo_args = Append(@, "--" \o flag)]

\* Long(flag) passthrough, l.353-360
passthrough_long(L, flag) ==
    LET o == optional_value(L.parser) IN
    IF o.some
    THEN [L EXCEPT !.parser = o.p,
                   !.cargo_args = Append(@, "--" \o flag \o "=" \o o.v)]
    ELSE [L EXCEPT !.parser = o.p, !.cargo_args = Append(@, "--" \o flag)]

\* the short passthrough arm without the special case of l.362-365
passthrough_short_greedy(L, flag) ==
    LET o == optional_value(L.parser) IN
    IF o.some
    THEN [L EXCEPT !.parser = o.p, !.cargo_args = Append(@, "-" \o flag \o o.v)]
    ELSE [L EXCEPT !.parser = o.p, !.cargo_args = Append(@, "-" \o flag)]

\* Short(flag) passthrough, l.361-371
passthrough_short(L, flag) ==
    IF flag \in {"q", "r"}
    THEN [L EXCEPT !.cargo_args = Append(@, "-" \o flag)]
    ELSE LET o == optional_value(L.parser) IN
         IF o.some
         THEN [L EXCEPT !.parser = o.p, !.cargo_args = Append(@, "-" \o flag \o o.v)]
         ELSE [L EXCEPT !.parser = o.p, !.cargo_args = Append(@, "-" \o flag)]

\* the Value arm forwarding the keyword it selects as well
bare_value_forwarding(L, val) ==
    IF L.subcommand = "None" /\ from_str(val) \notin {"None", "Demangle"}
    THEN [L EXCEPT !.subcommand = from_str(val), !.cargo_args = Append(@, val)]
    ELSE IF L.subcommand = "None" /\ from_str(val) = "Demangle"
    THEN LET n == next(L.parser) IN
         CASE n.kind = "Err" ->
                  Fail([L EXCEPT !.subcommand = "Demangle", !.parser = n.p], n.err)
           [] n.kind = "Arg" ->
                  Fail([L EXCEPT !.subcommand = "Demangle", !.parser = n.p],
                       unexpected(n.arg))
           [] OTHER -> [L EXCEPT !.subcommand = "Demangle", !.parser = n.p]
    ELSE [L EXCEPT !.cargo_args = Append(@, val)]

\* the Value arm without the test of l.374: a later keyword selects again
bare_value_reselect(L, val) ==
    LET v == from_str(val) IN
    IF v # "None"
    THEN IF v = "Demangle"
         THEN LET n == next(L.parser) IN
              CASE n.kind = "Err" ->
                       Fail([L EXCEPT !.subcommand = v, !.parser = n.p], n.err)
                [] n.kind = "Arg" ->
                       Fail([L EXCEPT !.subcommand = v, !.parser = n.p],
                            unexpected(n.arg))
                [] OTHER -> [L EXCEPT !.subcommand = v, !.parser = n.p]
         ELSE [L EXCEPT !.subcommand = v]
    ELSE [L EXCEPT !.cargo_args = Append(@, val)]

\* Value(val), l.372-388
bare_value(L, val) ==
    IF L.subcommand = "None"
    THEN LET v == from_str(val) IN
         IF v # "None"
         THEN IF v = "Demangle"
              THEN LET n == next(L.parser) IN
                   CASE n.kind = "Err" ->
                            Fail([L EXCEPT !.subcommand = v, !.parser = n.p], n.err)
                     [] n.kind = "Arg" ->
                            Fail([L EXCEPT !.subcommand = v, !.parser = n.p],
                                 unexpected(n.arg))
                     [] OTHER -> [L EXCEPT !.subcommand = v, !.parser = n.p]
              ELSE [L EXCEPT !.subcommand = v]
         ELSE [L EXCEPT !.cargo_args = Append(@, val)]
    ELSE [L EXCEPT !.cargo_args = Append(@, val)]

\* match arg { .. }, l.274-389: the first arm that matches
match_arg(L, arg) ==
    CASE IsOptArg(arg) -> parse_opt(L, arg, LocalOf(arg))
      [] IsFlagArg(arg) -> parse_flag(L, arg, LocalOf(arg))
      [] IsMultiArg(arg) -> push_value(L, arg, LocalOf(arg))
      [] IsVerboseArg(arg) -> count_verbose(L)
      [] IsHelpArg(arg) /\ L.subcommand = "None" -> help(L)
      [] IsVersionArg(arg) -> version(L)
      [] arg.kind = "Long" /\ ~IsOptArg(arg) /\ ~IsFlagArg(arg) /\ ~IsMultiArg(arg)
            /\ ~IsVerboseArg(arg) /\ ~(IsHelpArg(arg) /\ L.subcommand = "None")
            /\ ~IsVersionArg(arg) -> passthrough_long(L, arg.s)
      [] arg.kind = "Short" /\ ~IsOptArg(arg) /\ ~IsFlagArg(arg) /\ ~IsMultiArg(arg)
            /\ ~IsVerboseArg(arg) /\ ~(IsHelpArg(arg) /\ L.subcommand = "None")
            /\ ~IsVersionArg(arg) -> passthrough_short(L, arg.s)
      [] arg.kind = "Value" -> bare_value(L, arg.s)

----------------------------------------------------------------------------
(* The Args value *)

U8_MAX == 255

CovFlags ==
    {"json", "lcov", "text", "html", "open", "summary_only",
     "disable_default_ignore_filename_regex", "hide_instantiations",
     "no_cfg_coverage", "no_cfg_coverage_nightly", "no_report",
     "show_missing_lines", "include_build_script"}
CovOpts ==
    {"output_path", "output_dir", "failure_mode", "ignore_filename_regex",
     "fail_under_lines", "fail_uncovered_lines", "fail_uncovered_regions",
     "fail_uncovered_functions"}
BuildFlags == {"release", "coverage_target_only", "remap_path_prefix", "include_ffi"}
BuildOpts == {"jobs", "profile", "target", "color"}
ManifestOpts == {"manifest_path"}
SelFlags == FlagNames \ (CovFlags \cup BuildFlags)

\* LlvmCovOptions { .. }, l.411-433
LlvmCovOptions(fl, op) ==
    [flags |-> [f \in CovFlags |-> fl[f]], opts |-> [o \in CovOpts |-> op[o]]]

\* l.460 with a truncating conversion (`verbose as u8`)
BuildOptions_wrapping(fl, op, v) ==
    [flags |-> [f \in BuildFlags |-> fl[f]],
     opts |-> [o \in BuildOpts |-> op[o]],
     verbose |-> v % (U8_MAX + 1)]

\* BuildOptions { .. }, l.454-464
BuildOptions(fl, op, v) ==
    [flags |-> [f \in BuildFlags |-> fl[f]],
     opts |-> [o \in BuildOpts |-> op[o]],
     verbose |-> IF v > U8_MAX THEN U8_MAX ELSE v]

\* ManifestOptions { manifest_path }, l.465
ManifestOptions(op) == [opts |-> [o \in ManifestOpts |-> op[o]]]

\* #[derive(Default)] of the three sub-records
DefaultCov ==
    LlvmCovOptions([f \in FlagNames |-> FALSE], [o \in OptNames |-> None])
DefaultBuild ==
    BuildOptions([f \in FlagNames |-> FALSE], [o \in OptNames |-> None], 0)
DefaultManifest == ManifestOptions([o \in OptNames |-> None])

\* Ok(Self { .. }), l.409-468
MakeArgs(sub, fl, op, li, v, ca, re) ==
    [subcommand |-> sub,
     cov |-> LlvmCovOptions(fl, op),
     sel |-> [f \in SelFlags |-> fl[f]],
     lists |-> li,
     build |-> BuildOptions(fl, op, v),
     manifest |-> ManifestOptions(op),
     cargo_args |-> ca,
     rest |-> re]

\* the value of `ret` while nothing has been returned
NoArgs ==
    MakeArgs("None", [f \in FlagNames |-> FALSE], [o \in OptNames |-> None],
             [m \in MultiNames |-> <<>>], 0, <<>>, <<>>)

----------------------------------------------------------------------------
(* Args::parse, statement by statement *)

Locals ==
    [parser |-> parser, subcommand |-> subcommand, flags |-> flags,
     opts |-> opts, lists |-> lists, verbose |-> verbose,
     cargo_args |-> cargo_args, status |-> "go", err |-> NoError]

\* handle_args reporting the enumerate index itself (0-based)
handle_args_zero_based(k) ==
    IF argv[k].ok THEN ResOk(argv[k].text)
    ELSE ResErr(Err("NotUnicode", k - 1, argv[k].text))

\* handle_args, l.168-176: entry k (1-based) of the vector as Result<String>
handle_args(k) ==
    IF argv[k].ok THEN ResOk(argv[k].text)
    ELSE ResErr(Err("NotUnicode", k, argv[k].text))

Return(res, e) ==
    /\ pc' = "done"
    /\ result' = res
    /\ error' = e

\* l.179 left out: the program name is not taken off raw_args
SkipProgram_forgotten ==
    /\ pc = "start"
    /\ pc' = "subcmd"
    /\ UNCHANGED <<argv, i, args, rest, parser, subcommand, flags, opts, lists,
                   verbose, cargo_args, result, error, term_verbose, ret, seen>>
    /\ UNCHANGED <<taken, calls>>

\* raw_args.next(); // cargo (l.179): the entry is taken and its Result dropped
SkipProgram ==
    /\ pc = "start"
    /\ i' = IF i < Len(argv) THEN i + 1 ELSE i
    /\ pc' = "subcmd"
    /\ UNCHANGED <<argv, args, rest, parser, subcommand, flags, opts, lists,
                   verbose, cargo_args, result, error, term_verbose, ret, seen>>
    /\ UNCHANGED <<taken, calls>>

\* match raw_args.next().transpose()? { .. }, l.180-184
ExpectSubcmd ==
    /\ pc = "subcmd"
    /\ IF i >= Len(argv)
       THEN /\ Return("Err", Err("MissingSubcommand", 0, SUBCMD))
            /\ i' = i
       ELSE LET a == handle_args(i + 1) IN
            /\ i' = i + 1
            /\ IF ~a.ok THEN Return("Err", a.err)
               ELSE IF a.v = SUBCMD
               THEN pc' = "split" /\ UNCHANGED <<result, error>>
               ELSE Return("Err", Err("UnexpectedSubcommand", 0, a.v))
    /\ UNCHANGED <<argv, args, rest, parser, subcommand, flags, opts, lists,
                   verbose, cargo_args, term_verbose, ret, seen>>
    /\ UNCHANGED <<taken, calls>>

\* one turn of `for arg in &mut raw_args`, l.186-192
SplitArgs ==
    /\ pc = "split"
    /\ IF i >= Len(argv)
       THEN /\ pc' = "rest"
            /\ UNCHANGED <<i, args, result, error>>
       ELSE LET a == handle_args(i + 1) IN
            /\ i' = i + 1
            /\ IF ~a.ok THEN Return("Err", a.err) /\ UNCHANGED args
               ELSE IF a.v = "--"
               THEN pc' = "rest" /\ UNCHANGED <<args, result, error>>
               ELSE /\ args' = Append(args, a.v)
                    /\ UNCHANGED <<pc, result, error>>
    /\ UNCHANGED <<argv, rest, parser, subcommand, flags, opts, lists,
                   verbose, cargo_args, term_verbose, ret, seen>>
    /\ UNCHANGED <<taken, calls>>

\* the entries left in raw_args with every further `--` dropped
Remaining_without_markers ==
    SelectSeq([k \in 1..(Len(argv) - i) |-> handle_args(i + k)],
              LAMBDA r : ~(r.ok /\ r.v = "--"))

\* the entries left in raw_args, as collect::<Result<Vec<_>>>() sees them
Remaining == [k \in 1..(Len(argv) - i) |-> handle_args(i + k)]

\* l.193 and l.256 with the parser built from the whole line, the tokens
\* after the marker included
CollectRest_whole ==
    /\ pc = "rest"
    /\ LET bad == {k \in DOMAIN Remaining : ~Remaining[k].ok} IN
       IF bad # {}
       THEN LET k == CHOOSE k \in bad : \A j \in bad : k <= j IN
            /\ i' = i + k
            /\ Return("Err", Remaining[k].err)
            /\ UNCHANGED <<rest, parser>>
       ELSE /\ i' = Len(argv)
            /\ rest' = [k \in DOMAIN Remaining |-> Remaining[k].v]
            /\ parser' = from_args(args \o rest')
            /\ pc' = "parse"
            /\ UNCHANGED <<result, error>>
    /\ UNCHANGED <<argv, args, subcommand, flags, opts, lists,
                   verbose, cargo_args, term_verbose, ret, seen>>
    /\ UNCHANGED <<taken, calls>>

\* let rest = raw_args.collect::<Result<Vec<_>>>()?, l.193, and the
\* construction of the parser, l.256
CollectRest ==
    /\ pc = "rest"
    /\ LET bad == {k \in DOMAIN Remaining : ~Remaining[k].ok} IN
       IF bad # {}
       THEN LET k == CHOOSE k \in bad : \A j \in bad : k <= j IN
            /\ i' = i + k
            /\ Return("Err", Remaining[k].err)
            /\ UNCHANGED <<rest, parser>>
       ELSE /\ i' = Len(argv)
            /\ rest' = [k \in DOMAIN Remaining |-> Remaining[k].v]
            /\ parser' = from_args(args)
            /\ pc' = "parse"
            /\ UNCHANGED <<result, error>>
    /\ UNCHANGED <<argv, args, subcommand, flags, opts, lists,
                   verbose, cargo_args, term_verbose, ret, seen>>
    /\ UNCHANGED <<taken, calls>>

\* one turn of `while let Some(arg) = parser.next()?`, l.257-390
ParseArg ==
    /\ pc = "parse"
    /\ LET n == next(parser) IN
       CASE n.kind = "Err" ->
                /\ parser' = n.p
                /\ Return("Err", n.err)
                /\ UNCHANGED <<subcommand, flags, opts, lists, verbose,
                               cargo_args, seen>>
         [] n.kind = "End" ->
                /\ parser' = n.p
                /\ pc' = "validate"
                /\ UNCHANGED <<subcommand, flags, opts, lists, verbose,
                               cargo_args, seen, result, error>>
         [] n.kind = "Arg" ->
                LET L == match_arg([Locals EXCEPT !.parser = n.p], n.arg) IN
                /\ seen' = Append(seen, [kind |-> n.arg.kind, s |-> n.arg.s,
                                          at |-> Len(args) - Len(n.p.source)])
                /\ parser' = L.parser
                /\ subcommand' = L.subcommand
                /\ flags' = L.flags
                /\ opts' = L.opts
                /\ lists' = L.lists
                /\ verbose' = L.verbose
                /\ cargo_args' = L.cargo_args
                /\ IF L.status = "go"
                   THEN UNCHANGED <<pc, result, error>>
                   ELSE Return(L.status, L.err)
    /\ UNCHANGED <<argv, i, args, rest, term_verbose, ret>>
    /\ UNCHANGED <<taken, calls>>

\* l.397 with the negation of `workspace` lost
exclude_alone_unnegated(li, fl) == li["exclude"] # <<>> /\ fl["workspace"]

\* !exclude.is_empty() && !workspace, l.397
exclude_alone(li, fl) == li["exclude"] # <<>> /\ ~fl["workspace"]

\* l.392-401: the default subcommand and the cross-flag check
Validate ==
    /\ pc = "validate"
    /\ subcommand' = IF subcommand = "None" THEN "Test" ELSE subcommand
    /\ IF exclude_alone(lists, flags)
       THEN Return("Err", requires("--exclude", <<"--workspace">>))
       ELSE pc' = "finish" /\ UNCHANGED <<result, error>>
    /\ UNCHANGED <<argv, i, args, rest, parser, flags, opts, lists, verbose,
                   cargo_args, term_verbose, ret, seen>>
    /\ UNCHANGED <<taken, calls>>

\* l.404-407 putting the token at the head of cargo_args
propagate_verbose_first(ca, v) ==
    IF v > 1 THEN <<"-" \o Repeat("v", v - 1)>> \o ca ELSE ca

\* l.404-407 pushing one `v` per occurrence instead of one fewer
propagate_verbose_all(ca, v) ==
    IF v > 1 THEN Append(ca, "-" \o Repeat("v", v)) ELSE ca

\* the cargo_args after l.404-407: `-v` repeated verbose - 1 times is pushed
propagate_verbose(ca, v) ==
    IF v > 1 THEN Append(ca, "-" \o Repeat("v", v - 1)) ELSE ca

\* l.404-468 without the call of l.403
Finish_silent ==
    /\ pc = "finish"
    /\ cargo_args' = propagate_verbose(cargo_args, verbose)
    /\ ret' = MakeArgs(subcommand, flags, opts, lists, verbose, cargo_args', rest)
    /\ Return("Ok", NoError)
    /\ UNCHANGED <<argv, i, args, rest, parser, subcommand, flags, opts, lists,
                   verbose, seen, term_verbose>>
    /\ UNCHANGED <<taken, calls>>

\* l.403-468: term::verbose::set, the propagated -v, Ok(Self { .. })
Finish ==
    /\ pc = "finish"
    /\ term_verbose' = (verbose # 0)
    /\ cargo_args' = propagate_verbose(cargo_args, verbose)
    /\ ret' = MakeArgs(subcommand, flags, opts, lists, verbose, cargo_args', rest)
    /\ Return("Ok", NoError)
    /\ UNCHANGED <<argv, i, args, rest, parser, subcommand, flags, opts, lists,
                   verbose, seen>>
    /\ UNCHANGED <<taken, calls>>

\* what cov(), build() and manifest() leave alone: all but `ret`
parse_vars ==
    <<argv, i, pc, args, rest, parser, subcommand, flags, opts, lists,
      verbose, cargo_args, result, error, term_verbose, seen>>

\* Args::cov(&mut self), l.471-473: mem::take(&mut self.cov)
cov ==
    /\ result = "Ok"
    /\ taken' = [fn |-> "cov", v |-> ret.cov]
    /\ ret' = [ret EXCEPT !.cov = DefaultCov]
    /\ calls' = calls \cup {"cov"}
    /\ UNCHANGED parse_vars

\* build() returning a copy: the sub-record stays in the Args
build_copying ==
    /\ result = "Ok"
    /\ taken' = [fn |-> "build", v |-> ret.build]
    /\ calls' = calls \cup {"build"}
    /\ UNCHANGED <<ret, parse_vars>>

\* Args::build(&mut self), l.475-477: mem::take(&mut self.build)
build ==
    /\ result = "Ok"
    /\ taken' = [fn |-> "build", v |-> ret.build]
    /\ ret' = [ret EXCEPT !.build = DefaultBuild]
    /\ calls' = calls \cup {"build"}
    /\ UNCHANGED parse_vars

\* Args::manifest(&mut self), l.479-481: mem::take(&mut self.manifest)
manifest ==
    /\ result = "Ok"
    /\ taken' = [fn |-> "manifest", v |-> ret.manifest]
    /\ ret' = [ret EXCEPT !.manifest = DefaultManifest]
    /\ calls' = calls \cup {"manifest"}
    /\ UNCHANGED parse_vars

Next ==
    \/ SkipProgram
    \/ ExpectSubcmd
    \/ SplitArgs
    \/ CollectRest
    \/ ParseArg
    \/ Validate
    \/ Finish
    \/ cov
    \/ build
    \/ manifest

----------------------------------------------------------------------------
(* Argument vectors *)

Tok(s) == [ok |-> TRUE, text |-> s]
Bad(s) == [ok |-> FALSE, text |-> s]

SeqsUpTo(T, n) == UNION {[1..k -> T] : k \in 0..n}

\* the state at the start of Args::parse, for a vector made of one of the
\* heads in P followed by at most MaxLen entries of T
InitOver(P, T) ==
    /\ argv \in {p \o b : p \in P, b \in SeqsUpTo(T, MaxLen)}
    /\ i = 0
    /\ pc = "start"
    /\ args = <<>>
    /\ rest = <<>>
    /\ parser = from_args(<<>>)
    /\ subcommand = "None"
    /\ flags = [f \in FlagNames |-> FALSE]
    /\ opts = [o \in OptNames |-> None]
    /\ lists = [m \in MultiNames |-> <<>>]
    /\ verbose = 0
    /\ cargo_args = <<>>
    /\ result = "none"
    /\ error = NoError
    /\ term_verbose = FALSE
    /\ ret = NoArgs
    /\ seen = <<>>
    /\ taken = [fn |-> "", v |-> <<>>]
    /\ calls = {}

\* `cargo llvm-cov`
Envelope == <<Tok("cargo"), Tok(SUBCMD)>>

Init ==
    InitOver({Envelope},
             {Tok("--release"), Tok("-r"), Tok("--bin"), Tok("run"), Tok("x"),
              Tok("--"), Tok("-v"), Tok("--foo=1")})

Spec == Init /\ [][Next]_vars

----------------------------------------------------------------------------
(* Specifications: the same program over different families of vectors *)

\* any vector: a head of at most two entries, valid or not, then a tail
EnvelopeHeads ==
    SeqsUpTo({Tok("cargo"), Bad("carg<ff>"), Tok(SUBCMD), Tok("llvm")}, 2)
EnvelopeTokens == {Tok("--"), Bad("fo<80>o"), Tok("x"), Tok("--release")}

InitEnvelope == InitOver(EnvelopeHeads, EnvelopeTokens)
SpecEnvelope == InitEnvelope /\ [][Next]_vars

\* repeated flags and options in their spellings, around a subcommand keyword
DupTokens ==
    {Tok("--release"), Tok("-rr"), Tok("--jobs"), Tok("-j2"),
     Tok("2"), Tok("--all"), Tok("--workspace"), Tok("run")}

InitDup == InitOver({Envelope}, DupTokens)
SpecDup == InitDup /\ [][Next]_vars

\* multi-valued options, detached and attached values, a flag-shaped value
MultiTokens ==
    {Tok("--bin"), Tok("--bin=b"), Tok("-p"), Tok("-pa"), Tok("--package"),
     Tok("a"), Tok("-v")}

InitMulti == InitOver({Envelope}, MultiTokens)
SpecMulti == InitMulti /\ [][Next]_vars

\* --exclude with and without the workspace flag, around a subcommand keyword
ExcludeTokens ==
    {Tok("--exclude"), Tok("--exclude=b"), Tok("a"), Tok("--workspace"),
     Tok("--all"), Tok("run")}

InitExclude == InitOver({Envelope}, ExcludeTokens)
SpecExclude == InitExclude /\ [][Next]_vars

\* subcommand keywords, other bare values, flags and the `--` marker
SubTokens ==
    {Tok("run"), Tok("t"), Tok("demangle"), Tok("foo"), Tok("--release"),
     Tok("--"), Tok("--help"), Tok("-x")}

InitSub == InitOver({Envelope}, SubTokens)
SpecSub == InitSub /\ [][Next]_vars

\* help and version among tokens that would make the parse fail later
HelpTokens ==
    {Tok("--help"), Tok("-h"), Tok("-V"), Tok("--version"), Tok("run"),
     Tok("foo"), Tok("--release"), Tok("--exclude")}

InitHelp == InitOver({Envelope}, HelpTokens)
SpecHelp == InitHelp /\ [][Next]_vars

\* value-taking options followed by flag-shaped tokens and by plain values
ValueTokens ==
    {Tok("--output-path"), Tok("--bin"), Tok("--jobs"), Tok("--json"),
     Tok("-r"), Tok("x"), Tok("2"), Tok("run")}

InitValue == InitOver({Envelope}, ValueTokens)
SpecValue == InitValue /\ [][Next]_vars

\* options the tool does not know, with and without an attached value, alone
\* and in bundles
PassTokens ==
    {Tok("--foo"), Tok("--foo=1"), Tok("-x"), Tok("-xab"), Tok("-vx=1"),
     Tok("-qx"), Tok("-q=1"), Tok("demangle")}

InitPass == InitOver({Envelope}, PassTokens)
SpecPass == InitPass /\ [][Next]_vars

\* the verbosity flag in its spellings, alone, repeated and bundled
VerboseTokens ==
    {Tok("-v"), Tok("-vv"), Tok("--verbose"), Tok("-rv"),
     Tok("run"), Tok("--foo")}

InitVerbose == InitOver({Envelope}, VerboseTokens)
SpecVerbose == InitVerbose /\ [][Next]_vars

\* enough occurrences of the verbosity flag to pass u8::MAX: three bundles
\* of ManyV letters give 255, one more `-v` gives 256
SaturateTokens == {Tok("-" \o Repeat("v", ManyV)), Tok("-v"), Tok("run")}

InitSaturate == InitOver({Envelope}, SaturateTokens)
SpecSaturate == InitSaturate /\ [][Next]_vars

\* own options of the report and of the build, each in one spelling
OwnTokens ==
    {Tok("--json"), Tok("--lcov"), Tok("--text"), Tok("--html"),
     Tok("--coverage-target-only"), Tok("--target=t")}

InitOwn == InitOver({Envelope}, OwnTokens)
SpecOwn == InitOwn /\ [][Next]_vars

\* report, build and manifest options, verbosity, a forwarded value and a
\* subcommand keyword
TakeTokens ==
    {Tok("--json"), Tok("--release"), Tok("--manifest-path=m"), Tok("-v"),
     Tok("x"), Tok("run")}

InitTake == InitOver({Envelope}, TakeTokens)
SpecTake == InitTake /\ [][Next]_vars

\* values for --jobs at and around the ends of u32, in both spellings
JobsTokens ==
    {Tok("-j0"), Tok("--jobs=0"), Tok("--jobs"), Tok("00"), Tok("-j+1"),
     Tok("-j-1"), Tok("-j4294967295"), Tok("-j4294967296")}

InitJobs == InitOver({Envelope}, JobsTokens)
SpecJobs == InitJobs /\ [][Next]_vars

\* numeric options of both widths with values in range, out of range and
\* not numeric, attached and detached
NumericTokens ==
    {Tok("--fail-uncovered-lines"), Tok("--jobs"), Tok("4294967296"),
     Tok("18446744073709551615"), Tok("18446744073709551616"),
     Tok("--fail-uncovered-regions=1x"), Tok("--fail-uncovered-functions=-1"),
     Tok("-j07")}

InitNumeric == InitOver({Envelope}, NumericTokens)
SpecNumeric == InitNumeric /\ [][Next]_vars

\* own flags and an own option with its value among unrecognized flags, bare
\* values, a subcommand keyword and the verbosity flag
ForwardTokens ==
    {Tok("--json"), Tok("--output-path"), Tok("out.json"), Tok("--foo"),
     Tok("run"), Tok("-v")}

InitForward == InitOver({Envelope}, ForwardTokens)
SpecForward == InitForward /\ [][Next]_vars

\* lines with several faults: a repeated flag, a value that is no number, a
\* version flag and tokens after a keyword, and --exclude with or without
\* --workspace
FaultTokens ==
    {Tok("--release"), Tok("-r"), Tok("--exclude=a"), Tok("--jobs=x"),
     Tok("--version"), Tok("demangle"), Tok("run"), Tok("--workspace")}

InitFault == InitOver({Envelope}, FaultTokens)
SpecFault == InitFault /\ [][Next]_vars

\* unrecognized long and short flags followed by bare values, keywords
\* among them
DetachedTokens ==
    {Tok("--features"), Tok("-x"), Tok("-xa"), Tok("run"), Tok("a"),
     Tok("--json")}

InitDetached == InitOver({Envelope}, DetachedTokens)
SpecDetached == InitDetached /\ [][Next]_vars

\* bundles of short flags with the unrecognized `q` and `x` at the head, in
\* the middle and before a `=`
BundleTokens ==
    {Tok("-qv"), Tok("-qxa"), Tok("-q=1"), Tok("-xqv"), Tok("-x=1"),
     Tok("-vqr")}

InitBundle == InitOver({Envelope}, BundleTokens)
SpecBundle == InitBundle /\ [][Next]_vars

\* options given the empty string as value, attached and detached
EmptyTokens ==
    {Tok("--output-path"), Tok(""), Tok("--ignore-filename-regex="),
     Tok("--profile="), Tok("--manifest-path="), Tok("--exclude="),
     Tok("--workspace")}

InitEmpty == InitOver({Envelope}, EmptyTokens)
SpecEmpty == InitEmpty /\ [][Next]_vars

----------------------------------------------------------------------------
(* Vocabulary of the properties *)

Range(f) == {f[k] : k \in DOMAIN f}
Texts(es) == [k \in DOMAIN es |-> es[k].text]
Min(S) == CHOOSE k \in S : \A j \in S : k <= j

\* positions (1-based) of the entries that are not valid Unicode
BadPositions == {k \in 1..Len(argv) : ~argv[k].ok}

\* position of the first `--` after the envelope, 0 if there is none
FirstMarker ==
    LET m == {k \in 3..Len(argv) : argv[k].ok /\ argv[k].text = "--"} IN
    IF m = {} THEN 0 ELSE Min(m)

IsEncodingError(k) ==
    result = "Err" /\ error.kind = "NotUnicode" /\ error.index = k

----------------------------------------------------------------------------
(* C1 *)

----------------------------------------------------------------------------
(* C2 *)

\* C2: a valid second token other than `llvm-cov` gives the
\* unexpected-subcommand error naming it, fewer than two tokens give the
\* missing-subcommand error, and in both cases no later token is classified.
C2_Envelope ==
    pc = "done" =>
        /\ Len(argv) < 2 =>
                /\ result = "Err" /\ error.kind = "MissingSubcommand"
                /\ args = <<>> /\ seen = <<>>
        /\ (Len(argv) >= 2 /\ argv[2].ok /\ argv[2].text # SUBCMD) =>
                /\ result = "Err" /\ error.kind = "UnexpectedSubcommand"
                /\ error.text = argv[2].text
                /\ i = 2 /\ args = <<>> /\ seen = <<>>

\* a wrong second token followed by further tokens, one of them not valid
\* Unicode
C2_Witness ==
    /\ pc = "done"
    /\ error.kind = "UnexpectedSubcommand"
    /\ Len(argv) > 3
    /\ BadPositions \ {1} # {}

----------------------------------------------------------------------------
(* C3 *)

\* C3: on success `rest` is exactly what follows the first `--` after the
\* envelope, in order and unchanged, later `--` included; the tokens before
\* it, and only they, are classified; the first `--` is in neither `rest`
\* (as an extra element) nor `cargo_args`.
C3_Rest ==
    result = "Ok" =>
        LET m == FirstMarker
            all == Texts(argv)
        IN  /\ ret.rest = IF m = 0 THEN <<>> ELSE SubSeq(all, m + 1, Len(all))
            /\ args = IF m = 0 THEN SubSeq(all, 3, Len(all))
                               ELSE SubSeq(all, 3, m - 1)
            /\ \A k \in DOMAIN seen : seen[k].at \in DOMAIN args
            /\ "--" \notin Range(ret.cargo_args)
            /\ ("build" \notin calls /\ ~ret.build.flags["release"])
                  => "--release" \notin Range(args)

\* a success whose trailing segment holds a further `--` and a flag-shaped
\* token that was not taken as the flag
C3_Witness ==
    /\ result = "Ok"
    /\ Len(ret.rest) >= 3
    /\ "--" \in Range(ret.rest)
    /\ "--release" \in Range(ret.rest)
    /\ ~ret.build.flags["release"]

----------------------------------------------------------------------------
(* C4 *)

\* the classifier yields the k-th and the j-th argument for the same boolean
\* flag or unique-valued option, in whatever spellings
SameOwnOption(k, j) ==
    /\ IsFlagArg(seen[j]) \/ IsOptArg(seen[j])
    /\ IsFlagArg(seen[k]) \/ IsOptArg(seen[k])
    /\ LocalOf(seen[k]) = LocalOf(seen[j])

\* C4: when the classifier reaches a second occurrence of a boolean flag or
\* of a unique-valued option (an occurrence is a token, or a character of a
\* bundle, that the classifier yields as that option; a token taken as the
\* value of the option before it is not one), the parse ends there with the
\* duplicate-argument error naming the spelling met.
C4_Duplicate ==
    \A j \in DOMAIN seen :
        (\E k \in 1..(j - 1) : SameOwnOption(k, j)) =>
            /\ j = Len(seen)
            /\ pc = "done"
            /\ result = "Err"
            /\ error.kind = "MultiArg"
            /\ error.text = format_flag(seen[j])

\* a duplicate met in another spelling, after the subcommand keyword
C4_Witness ==
    /\ pc = "done"
    /\ error.kind = "MultiArg"
    /\ subcommand = "Run"
    /\ \E k \in DOMAIN seen :
          /\ SameOwnOption(k, Len(seen))
          /\ format_flag(seen[k]) # format_flag(seen[Len(seen)])
          /\ seen[k].at < seen[Len(seen)].at

----------------------------------------------------------------------------
(* C5 *)

\* the list each multi-valued option of the claim fills, by long name
C5_List(n) ==
    CASE n \in {"bin", "example", "test", "bench", "package", "exclude"} -> n
      [] n = "exclude-from-test" -> "exclude_from_test"
      [] n = "exclude-from-report" -> "exclude_from_report"
      [] OTHER -> ""

\* what token t says when read on its own: the list it names ("" if it is
\* no multi-valued option) and the value attached to it, if any
C5_Read(t) ==
    IF StartsWith(t, "--")
    THEN LET eq == FindFrom(t, "=", 1) IN
         [list |-> C5_List(IF eq = 0 THEN SubSeq(t, 3, Len(t))
                                     ELSE SubSeq(t, 3, eq - 1)),
          attached |-> eq # 0,
          v |-> IF eq = 0 THEN "" ELSE SubSeq(t, eq + 1, Len(t))]
    ELSE IF StartsWith(t, "-p")
    THEN [list |-> "package", attached |-> Len(t) > 2, v |-> SubSeq(t, 3, Len(t))]
    ELSE [list |-> "", attached |-> FALSE, v |-> ""]

\* the values given to list m in the tokens a, one per occurrence, in order:
\* the attached value, else the token that follows the option
RECURSIVE C5_Given(_, _)
C5_Given(m, a) ==
    IF a = <<>> THEN <<>>
    ELSE LET r == C5_Read(Head(a)) IN
         IF r.list = "" THEN C5_Given(m, Tail(a))
         ELSE IF r.attached
         THEN (IF r.list = m THEN <<r.v>> ELSE <<>>) \o C5_Given(m, Tail(a))
         ELSE IF Len(a) < 2 THEN <<>>
         ELSE (IF r.list = m THEN <<a[2]>> ELSE <<>>)
                  \o C5_Given(m, SubSeq(a, 3, Len(a)))

\* C5: a multi-valued option may occur any number of times; no occurrence
\* gives the duplicate-argument error (the only failure is an option left
\* without a value), and on success each list holds the values given, one
\* per occurrence, in order of appearance, equal values kept.
C5_MultiValued ==
    pc = "done" =>
        /\ error.kind # "MultiArg"
        /\ result = "Err" => error.kind = "MissingValue"
        /\ result = "Ok" =>
              \A m \in MultiNames : ret.lists[m] = C5_Given(m, args)

\* a list that holds the same value twice, among three occurrences
C5_Witness ==
    /\ result = "Ok"
    /\ Len(ret.lists["package"]) = 3
    /\ ret.lists["package"][1] = ret.lists["package"][3]
    /\ ret.lists["package"][1] # ret.lists["package"][2]

----------------------------------------------------------------------------
(* C6 *)

ExcludeGiven == \E j \in DOMAIN seen : seen[j].kind = "Long" /\ seen[j].s = "exclude"
WorkspaceGiven ==
    \E j \in DOMAIN seen : seen[j].kind = "Long" /\ seen[j].s \in {"workspace", "all"}

RequiresWorkspace ==
    /\ result = "Err"
    /\ error.kind = "Requires"
    /\ error.text = "--exclude can only be used together with --workspace"

\* C6: for a vector with no other fault (the parse ends in success or in the
\* requires error), the parse fails, with the requires error naming
\* --workspace, exactly when --exclude is given and neither --workspace nor
\* --all is, wherever the flags stand.
C6_ExcludeRequiresWorkspace ==
    (pc = "done" /\ (result = "Ok" \/ error.kind = "Requires")) =>
        /\ (ExcludeGiven /\ ~WorkspaceGiven) => RequiresWorkspace
        /\ ~(ExcludeGiven /\ ~WorkspaceGiven) => result = "Ok"
        /\ result = "Ok" =>
              (ret.lists["exclude"] # <<>>) = ExcludeGiven
                 /\ ret.sel["workspace"] = WorkspaceGiven

\* --exclude accepted with --all given after it, beyond the subcommand keyword
C6_Witness ==
    /\ result = "Ok"
    /\ ret.subcommand = "Run"
    /\ \E j, k, l \in DOMAIN seen :
          /\ j < k /\ k < l
          /\ seen[j].kind = "Long" /\ seen[j].s = "exclude"
          /\ seen[k].kind = "Value" /\ seen[k].s = "run"
          /\ seen[l].kind = "Long" /\ seen[l].s = "all"

----------------------------------------------------------------------------
(* C7, C8, C9: the subcommand *)

\* the bare values the classifier yielded, in order
BareValues ==
    LET vs == SelectSeq(seen, LAMBDA a : a.kind = "Value") IN
    [k \in DOMAIN vs |-> vs[k].s]

\* the elements of a forwarded list that are bare values (not flag-shaped)
BareOf(ca) == SelectSeq(ca, LAMBDA t : ~(Len(t) > 1 /\ CharAt(t, 1) = "-"))

\* the subcommand each keyword denotes, "" for any other text
Keyword(s) ==
    CASE s \in {"test", "t"} -> "Test"
      [] s \in {"run", "r"} -> "Run"
      [] s = "show-env" -> "ShowEnv"
      [] s = "clean" -> "Clean"
      [] s = "nextest" -> "Nextest"
      [] s = "demangle" -> "Demangle"
      [] OTHER -> ""

\* C7: on success, a first bare value that is a keyword other than
\* `demangle` gives the subcommand it denotes, and every bare value after
\* it, keywords included, is forwarded in order and changes nothing; with no
\* bare value the subcommand is Test.
C7_FirstKeyword ==
    result = "Ok" =>
        LET v == BareValues IN
        /\ v = <<>> => ret.subcommand = "Test"
        /\ (v # <<>> /\ Keyword(v[1]) \notin {"", "Demangle"}) =>
              /\ ret.subcommand = Keyword(v[1])
              /\ BareOf(ret.cargo_args) = Tail(v)

\* `run` chosen, then two further keywords forwarded
C7_Witness ==
    /\ result = "Ok"
    /\ ret.subcommand = "Run"
    /\ BareOf(ret.cargo_args) = <<"t", "demangle">>

\* C8 as stated: when the first bare value is no keyword, the subcommand is
\* the default Test and every bare value, later keywords included, is
\* forwarded.
C8_AsStated ==
    result = "Ok" =>
        LET v == BareValues IN
        (v # <<>> /\ Keyword(v[1]) = "") =>
              /\ ret.subcommand = "Test"
              /\ BareOf(ret.cargo_args) = v

\* C9 as stated: with `demangle` selected, any further token of the vector
\* (a `--` marker with trailing tokens included) gives the
\* unexpected-argument error of l.379; `demangle` as the last token gives
\* success with Demangle, unless the tokens before it are at fault.
C9_AsStated ==
    (pc = "done" /\ subcommand = "Demangle") =>
        LET d == 2 + seen[Len(seen)].at IN
        /\ (d < Len(argv) /\ ~(d + 1 = Len(argv) /\ argv[d + 1].text = "--")) =>
              /\ result = "Err"
              /\ error.kind \in {"UnexpectedOption", "UnexpectedArgument"}
        /\ d = Len(argv) =>
              \/ result = "Ok" /\ ret.subcommand = "Demangle"
              \/ result = "Err" /\ error.kind = "Requires"

----------------------------------------------------------------------------
(* C10 *)

HelpOrVersion(a) ==
    \/ a.kind = "Short" /\ a.s \in {"h", "V"}
    \/ a.kind = "Long" /\ a.s \in {"help", "version"}

\* no bare value before the j-th argument is a subcommand keyword
NoKeywordBefore(j) ==
    \A k \in 1..(j - 1) : seen[k].kind = "Value" => Keyword(seen[k].s) = ""

\* C10: when the classifier reaches -h, --help, -V or --version and no
\* subcommand keyword came before, the process exits with status 0 at that
\* token: nothing after it is classified, no validation runs, no Args is
\* returned and no error is reported, whatever the later tokens are.
C10_HelpExits ==
    \A j \in DOMAIN seen :
        (HelpOrVersion(seen[j]) /\ NoKeywordBefore(j)) =>
            /\ j = Len(seen)
            /\ pc = "done"
            /\ result = "Exit0"
            /\ error = NoError
            /\ ret = NoArgs
            /\ ~term_verbose

\* exit 0 although the tokens left unread hold a duplicate of a flag already
\* set and an --exclude without --workspace
C10_Witness ==
    /\ result = "Exit0"
    /\ flags["release"]
    /\ "--release" \in Range(parser.source)
    /\ "--exclude" \in Range(parser.source)

----------------------------------------------------------------------------
(* C11 *)

\* a subcommand keyword was classified before the j-th argument
KeywordBefore(j) ==
    \E k \in 1..(j - 1) : seen[k].kind = "Value" /\ Keyword(seen[k].s) # ""

\* the help flags classified after a subcommand keyword, as they are spelled
HelpAfterKeyword ==
    LET hs == SelectSeq([j \in DOMAIN seen |-> [a |-> seen[j], j |-> j]],
                        LAMBDA e : IsHelpArg(e.a) /\ KeywordBefore(e.j))
    IN  [k \in DOMAIN hs |-> format_flag(hs[k].a)]

\* C11: after a subcommand keyword, -h and --help do not end the run: each
\* is appended to cargo_args as it is spelled, in order, and the parse goes
\* on (it never exits 0 from there); -V and --version end the parse there
\* with the error of l.348, which names --version.
C11_AfterKeyword ==
    /\ \A j \in DOMAIN seen :
          (IsHelpArg(seen[j]) /\ KeywordBefore(j)) =>
              /\ result # "Exit0"
              /\ (pc = "done" /\ j = Len(seen)) =>
                    result = "Ok" \/ error.kind = "Requires"
    /\ SelectSeq(cargo_args, LAMBDA t : t \in {"-h", "--help"}) = HelpAfterKeyword
    /\ \A j \in DOMAIN seen :
          (IsVersionArg(seen[j]) /\ KeywordBefore(j)) =>
              /\ j = Len(seen)
              /\ pc = "done"
              /\ result = "Err"
              /\ error.kind = "UnexpectedVersion"
              /\ error.text = "--version"
              /\ ret = NoArgs

\* both help spellings forwarded after `run`, then a flag of the tool set
C11_Witness ==
    /\ result = "Ok"
    /\ ret.subcommand = "Run"
    /\ ret.cargo_args = <<"-h", "--help">>
    /\ ret.build.flags["release"]
    /\ seen[Len(seen)].s = "release"

\* -V refused after a keyword and a forwarded -h
C11_WitnessVersion ==
    /\ result = "Err"
    /\ error.kind = "UnexpectedVersion"
    /\ cargo_args = <<"-h">>
    /\ seen[Len(seen)].s = "V"

----------------------------------------------------------------------------
(* C12 *)

FlagShaped(t) == Len(t) > 1 /\ CharAt(t, 1) = "-"

\* the j-th argument is an own value-taking option whose token carries no
\* attached value and is followed, in the classified segment, by a
\* flag-shaped token
FollowedByFlag(j) ==
    LET t == args[seen[j].at] IN
    /\ IsOptArg(seen[j]) \/ IsMultiArg(seen[j])
    /\ IF seen[j].kind = "Long" THEN FindFrom(t, "=", 1) = 0
       ELSE CharAt(t, Len(t)) = seen[j].s /\ Len(t) = 2
    /\ seen[j].at < Len(args)
    /\ FlagShaped(args[seen[j].at + 1])

\* C12 as stated: the flag-shaped token that follows an own value-taking
\* option is never stored as that option's value.
C12_AsStated ==
    \A j \in DOMAIN seen :
        FollowedByFlag(j) =>
            LET t == args[seen[j].at + 1]
                f == LocalOf(seen[j])
            IN  IF IsOptArg(seen[j])
                THEN ~(opts[f].some /\ opts[f].v = t)
                ELSE t \notin Range(lists[f])

----------------------------------------------------------------------------
(* C13 *)

\* an option that is none of the tool's own
Unrecognized(a) ==
    /\ a.kind \in {"Long", "Short"}
    /\ ~IsOptArg(a) /\ ~IsFlagArg(a) /\ ~IsMultiArg(a)
    /\ ~IsVerboseArg(a) /\ ~IsHelpArg(a) /\ ~IsVersionArg(a)

\* for the last argument of s, a short option: what follows its letter in
\* its token (each argument classified from a token takes one letter of it)
AfterLetter(s) ==
    LET n == Cardinality({k \in DOMAIN s : s[k].at = s[Len(s)].at})
        t == args[s[Len(s)].at]
    IN  SubSeq(t, n + 2, Len(t))

\* the element an unrecognized option, the last argument of s, is forwarded
\* as: a long option as its token; a short option as `-f` and the value
\* attached to it, which is what follows the letter less one leading `=`;
\* with noValue, the letters in it take no value and are forwarded alone
Forwarded(s, noValue) ==
    LET a == s[Len(s)]
        r == AfterLetter(s)
    IN  IF a.kind = "Long" THEN args[a.at]
        ELSE IF a.s \in noValue THEN "-" \o a.s
        ELSE "-" \o a.s \o (IF StartsWith(r, "=") THEN Tail(r) ELSE r)

\* the classifier's step on an unrecognized option: the parse goes on, the
\* one element is appended, the tool's own locals are left alone
ForwardStep(noValue) ==
    (seen' # seen /\ Unrecognized(seen'[Len(seen')])) =>
        /\ pc' = "parse"
        /\ result' = "none"
        /\ cargo_args' = Append(cargo_args, Forwarded(seen', noValue))
        /\ UNCHANGED <<subcommand, flags, opts, lists, verbose>>

\* C13 as stated: an unrecognized option never makes the parse fail; it is
\* forwarded as one element, `--flag`, `--flag=value`, `-f` or `-fvalue`,
\* and sets none of the tool's own fields (`q` read as a flag without value,
\* the letters after it as flags of their own; the refusal of whatever
\* follows `demangle` set apart).
C13_AsStated ==
    [][/\ ForwardStep({"q"})
       /\ result' = "Err" =>
             /\ error'.kind \in {"UnexpectedOption", "UnexpectedArgument"}
             /\ subcommand' = "Demangle"]_vars

\* C13, amended: the same, but for the short flag `q`, which takes no value:
\* it is forwarded alone as `-q` and the letters after it in its token are
\* classified in their turn; a `=` right after it makes the parse fail with
\* the unexpected-value error naming `-q`.  No other unrecognized option
\* the classifier reaches makes the parse fail (after `demangle` it reaches
\* none: whatever follows is refused by l.378-380).
C13_Forwarded ==
    [][/\ ForwardStep({"q"})
       /\ result' = "Err" =>
             \/ /\ error'.kind = "UnexpectedValue"
                /\ error'.text = "-q"
                /\ seen # <<>>
                /\ seen[Len(seen)].s = "q"
                /\ StartsWith(AfterLetter(seen), "=")
                /\ cargo_args[Len(cargo_args)] = "-q"
             \/ /\ error'.kind \in {"UnexpectedOption", "UnexpectedArgument"}
                /\ subcommand' = "Demangle"
                /\ seen'[Len(seen')].s = "demangle"
       /\ (pc = "parse" /\ seen # <<>> /\ seen[Len(seen)].s = "q"
              /\ StartsWith(AfterLetter(seen), "="))
             => result' = "Err"]_vars

\* a success with the four forms forwarded, a bundled -v counted, and
\* nothing else set
C13_Witness ==
    /\ result = "Ok"
    /\ ret.cargo_args = <<"--foo=1", "-xab", "-x1", "--foo">>
    /\ ret.build.verbose = 1
    /\ ret.subcommand = "Test"
    /\ \A f \in FlagNames : ~flags[f]

----------------------------------------------------------------------------
(* C14 *)

\* the number of letters `v` in s
RECURSIVE CountV(_)
CountV(s) ==
    IF Len(s) = 0 THEN 0
    ELSE (IF CharAt(s, 1) = "v" THEN 1 ELSE 0) + CountV(Tail(s))

\* the occurrences of the verbosity flag in token t: `--verbose`, or the
\* letters `v` of a bundle of short flags
VerboseIn(t) ==
    IF t = "--verbose" THEN 1
    ELSE IF StartsWith(t, "-") /\ ~StartsWith(t, "--") THEN CountV(t)
    ELSE 0

\* the occurrences of the verbosity flag in the tokens a
RECURSIVE Occurrences(_)
Occurrences(a) ==
    IF a = <<>> THEN 0 ELSE VerboseIn(Head(a)) + Occurrences(Tail(a))

\* t is `-` followed by one or more letters `v` and nothing else
VToken(t) == Len(t) > 1 /\ CharAt(t, 1) = "-" /\ CountV(t) = Len(t) - 1

\* C14: with n occurrences of -v / --verbose among the classified tokens,
\* separate or bundled, the parse never fails for the repetition, the
\* verbosity count is n, and on success cargo_args holds exactly one token
\* made of `-` and n - 1 letters `v` when n > 1, none when n <= 1.
C14_Verbosity ==
    /\ verbose = Cardinality({j \in DOMAIN seen : IsVerboseArg(seen[j])})
    /\ pc = "done" =>
          /\ result \in {"Ok", "Err"}
          /\ result = "Err" => error.kind = "MultiArg" /\ error.text = "-r"
    /\ result = "Ok" =>
          LET n == Occurrences(args)
              vs == SelectSeq(ret.cargo_args, VToken)
          IN  /\ verbose = n
              /\ "build" \notin calls => ret.build.verbose = n
              /\ term_verbose = (n > 0)
              /\ n <= 1 => vs = <<>>
              /\ n > 1 => Len(vs) = 1 /\ Len(vs[1]) = n

\* `-v -v -v`: count 3 and the token `-vv`
C14_Witness ==
    /\ result = "Ok"
    /\ args = <<"-v", "-v", "-v">>
    /\ ret.build.verbose = 3
    /\ ret.cargo_args = <<"-vv">>

----------------------------------------------------------------------------
(* C15 *)

\* C15: the stored build.verbose is min(n, 255) for n occurrences of the
\* verbosity flag: it is n up to 255 and stays 255 above, never a smaller
\* value.
C15_Saturates ==
    result = "Ok" =>
        LET n == Occurrences(args) IN
        /\ verbose = n
        /\ "build" \notin calls =>
              ret.build.verbose = IF n <= 255 THEN n ELSE 255
        /\ ret.build.verbose \in 0..255

\* 256 occurrences or more, stored as 255
C15_Witness ==
    /\ result = "Ok"
    /\ Occurrences(args) > 255
    /\ ret.build.verbose = 255

----------------------------------------------------------------------------
(* C16 *)

\* C16 as stated: --coverage-target-only without --target is rejected, so a
\* returned Args with build.coverage_target_only set has build.target set.
C16_AsStated ==
    /\ result = "Ok" =>
          (ret.build.flags["coverage_target_only"] => ret.build.opts["target"].some)
    /\ (pc = "done" /\ "--coverage-target-only" \in Range(args)
           /\ "--target=t" \notin Range(args)) => result = "Err"

----------------------------------------------------------------------------
(* C17 *)

Accessors == {"cov", "build", "manifest"}

\* v is the empty record: all booleans false, all options absent,
\* verbosity 0
IsEmpty(v) ==
    /\ "flags" \in DOMAIN v => \A f \in DOMAIN v.flags : ~v.flags[f]
    /\ \A o \in DOMAIN v.opts : ~v.opts[o].some
    /\ "verbose" \in DOMAIN v => v.verbose = 0

\* v holds what the parse produced: the locals of Args::parse at its end
IsParsed(v) ==
    /\ "flags" \in DOMAIN v => \A f \in DOMAIN v.flags : v.flags[f] = flags[f]
    /\ \A o \in DOMAIN v.opts : v.opts[o] = opts[o]
    /\ "verbose" \in DOMAIN v =>
          v.verbose = IF verbose > 255 THEN 255 ELSE verbose

\* the fields each sub-record has
FieldsOf(f) ==
    CASE f = "cov" ->
            [flags |-> {"json", "lcov", "text", "html", "open", "summary_only",
                        "disable_default_ignore_filename_regex",
                        "hide_instantiations", "no_cfg_coverage",
                        "no_cfg_coverage_nightly", "no_report",
                        "show_missing_lines", "include_build_script"},
             opts |-> {"output_path", "output_dir", "failure_mode",
                       "ignore_filename_regex", "fail_under_lines",
                       "fail_uncovered_lines", "fail_uncovered_regions",
                       "fail_uncovered_functions"}]
      [] f = "build" ->
            [flags |-> {"release", "coverage_target_only", "remap_path_prefix",
                        "include_ffi"},
             opts |-> {"jobs", "profile", "target", "color"}]
      [] f = "manifest" -> [flags |-> {}, opts |-> {"manifest_path"}]

\* C17: a call of cov(), build() or manifest() on a returned Args gives, the
\* first time, the values the parse produced and, every later time, the
\* empty record; it leaves the empty record in the Args and changes no other
\* field of it.
C17_Take ==
    [][(result = "Ok" /\ pc = "done") =>
          LET f == taken'.fn IN
          /\ f \in Accessors
          /\ DOMAIN taken'.v.opts = FieldsOf(f).opts
          /\ f # "manifest" => DOMAIN taken'.v.flags = FieldsOf(f).flags
          /\ IF f \in calls THEN IsEmpty(taken'.v) ELSE IsParsed(taken'.v)
          /\ taken'.v = ret[f]
          /\ IsEmpty(ret'[f])
          /\ \A g \in DOMAIN ret \ {f} : ret'[g] = ret[g]
          /\ DOMAIN ret' = DOMAIN ret]_vars

\* build() called again after cov(): it returns the empty record although
\* the parse set build options, and the manifest path is still in the Args
C17_Witness ==
    /\ result = "Ok"
    /\ calls = {"cov", "build"}
    /\ taken.fn = "build"
    /\ IsEmpty(taken.v)
    /\ flags["release"] /\ verbose = 1
    /\ ret.manifest.opts["manifest_path"].some
    /\ IsEmpty(ret.cov) /\ flags["json"]

----------------------------------------------------------------------------
(* C18 *)

Formats == {"json", "lcov", "text", "html"}

\* the number of tokens of a equal to t
TimesGiven(a, t) == Cardinality({k \in DOMAIN a : a[k] = t})

\* no option is given twice: each token occurs at most once
NothingRepeated == \A k, j \in DOMAIN args : args[k] = args[j] => k = j

----------------------------------------------------------------------------
(* C19 *)

\* C19 as stated: a parse writes no process-wide variable: the verbosity
\* flag of crate::term is never changed by it.
C19_AsStated == [][term_verbose' = term_verbose]_vars

\* C19, amended: a parse writes one process-wide variable, the verbosity
\* flag of crate::term, and only when it succeeds: it is set, once
\* validation has passed, to whether the verbosity flag occurs among the
\* classified tokens; a parse that fails writes nothing.
C19_VerboseFlag ==
    /\ result = "Ok" => term_verbose = (Occurrences(args) > 0)
    /\ result # "Ok" => ~term_verbose

\* the flag set by a parse that succeeded with one -v
C19_Witness ==
    /\ result = "Ok"
    /\ Occurrences(args) = 1
    /\ term_verbose

\* the flag left alone by a parse that counted a -v and then failed
C19_WitnessFailure ==
    /\ result = "Err"
    /\ verbose > 0
    /\ ~term_verbose

----------------------------------------------------------------------------
(* C20 *)

\* the value texts given to --jobs / -j in the tokens a, one per occurrence
RECURSIVE JobsGiven(_)
JobsGiven(a) ==
    IF a = <<>> THEN <<>>
    ELSE LET h == Head(a) IN
         IF StartsWith(h, "--jobs=")
         THEN <<SubSeq(h, 8, Len(h))>> \o JobsGiven(Tail(a))
         ELSE IF h = "--jobs"
         THEN IF Len(a) < 2 THEN <<"">>
              ELSE <<a[2]>> \o JobsGiven(SubSeq(a, 3, Len(a)))
         ELSE IF StartsWith(h, "-j")
         THEN <<SubSeq(h, 3, Len(h))>> \o JobsGiven(Tail(a))
         ELSE JobsGiven(Tail(a))

\* the u32 a value text denotes, as its decimal text; "" when it denotes none
Denotes(t) ==
    CASE t \in {"0", "00"} -> "0"
      [] t = "+1" -> "1"
      [] t = "4294967295" -> "4294967295"
      [] OTHER -> ""

\* C20 as stated: `jobs`, when present in a returned Args, is positive;
\* `-j0` and `--jobs 0` are not accepted as a stored 0.
C20_AsStated ==
    (result = "Ok" /\ "build" \notin calls /\ ret.build.opts["jobs"].some)
        => ret.build.opts["jobs"].v # "0"

\* C20, amended: `jobs`, when present in a returned Args, is the u32 its
\* value text denotes, from 0 to 4294967295: `-j0`, `--jobs=0` and
\* `--jobs 00` are accepted and stored as 0; a text that denotes no u32
\* (negative, above 4294967295) makes the parse fail.
C20_Jobs ==
    pc = "done" =>
        LET g == JobsGiven(args) IN
        /\ Len(g) = 0 => result = "Ok"
        /\ (Len(g) = 1 /\ Denotes(g[1]) # "") => result = "Ok"
        /\ (Len(g) >= 1 /\ Denotes(g[1]) = "") =>
              result = "Err" /\ error.kind \in {"ParseInt", "MissingValue"}
        /\ (Len(g) >= 2 /\ Denotes(g[1]) # "") =>
              result = "Err" /\ error.kind = "MultiArg"
        /\ (result = "Ok" /\ "build" \notin calls) =>
              ret.build.opts["jobs"] =
                 IF Len(g) = 0 THEN [some |-> FALSE, v |-> ""]
                 ELSE [some |-> TRUE, v |-> Denotes(g[1])]

\* a returned Args whose jobs is 0, given as `--jobs 00`
C20_Witness ==
    /\ result = "Ok"
    /\ calls = {}
    /\ args = <<"--jobs", "00">>
    /\ ret.build.opts["jobs"] = [some |-> TRUE, v |-> "0"]

----------------------------------------------------------------------------
(* C21 *)

\* the spelling of the first occurrence of the option the last argument
\* repeats
FirstSpelling ==
    LET k == Min({k \in DOMAIN seen : SameOwnOption(k, Len(seen))})
    IN  format_flag(seen[k])

\* C21 as stated: the duplicate-argument error names the flag by a spelling
\* that does not depend on the alias met: a flag repeated through another
\* spelling is reported as it is when its first spelling is repeated
\* (`--workspace --all` as `--workspace --workspace`, which names
\* `--workspace`).
C21_AsStated ==
    (pc = "done" /\ result = "Err" /\ error.kind = "MultiArg") =>
        error.text = FirstSpelling

----------------------------------------------------------------------------
(* C22 *)

\* the field a token names when it is a numeric option, "" otherwise, and
\* the value attached to it
NumericRead(t) ==
    LET eq == FindFrom(t, "=", 1)
        name == IF eq = 0 THEN t ELSE SubSeq(t, 1, eq - 1)
        field == CASE name = "--jobs" -> "jobs"
                   [] name = "--fail-uncovered-lines" -> "fail_uncovered_lines"
                   [] name = "--fail-uncovered-regions" -> "fail_uncovered_regions"
                   [] name = "--fail-uncovered-functions" ->
                         "fail_uncovered_functions"
                   [] OTHER -> ""
    IN  IF StartsWith(t, "-j")
        THEN [field |-> "jobs", attached |-> Len(t) > 2, v |-> SubSeq(t, 3, Len(t))]
        ELSE [field |-> field, attached |-> eq # 0,
              v |-> IF eq = 0 THEN "" ELSE SubSeq(t, eq + 1, Len(t))]

\* the values given to numeric options in the tokens a, in order, each with
\* its field; `missing` when the option is the last token
RECURSIVE NumericGiven(_)
NumericGiven(a) ==
    IF a = <<>> THEN <<>>
    ELSE LET r == NumericRead(Head(a)) IN
         IF r.field = "" THEN NumericGiven(Tail(a))
         ELSE IF r.attached
         THEN <<[field |-> r.field, v |-> r.v, missing |-> FALSE]>>
                  \o NumericGiven(Tail(a))
         ELSE IF Len(a) < 2
         THEN <<[field |-> r.field, v |-> "", missing |-> TRUE]>>
         ELSE <<[field |-> r.field, v |-> a[2], missing |-> FALSE]>>
                  \o NumericGiven(SubSeq(a, 3, Len(a)))

\* the integer a value text denotes for a field, as decimal text; "" when it
\* denotes no non-negative integer of the field's range (jobs: up to
\* 4294967295; the others: up to 18446744073709551615)
NumericValue(field, t) ==
    CASE t = "07" -> "7"
      [] t = "4294967296" /\ field # "jobs" -> t
      [] t = "18446744073709551615" /\ field # "jobs" -> t
      [] OTHER -> ""

\* C22: a numeric option whose value is no non-negative integer of the
\* field's range makes the parse fail: a returned Args holds, for every
\* numeric option given, the integer its value denotes, and the leftmost
\* value that denotes none ends the parse with the conversion error.
C22_Numeric ==
    pc = "done" =>
        LET g == NumericGiven(args)
            bad == {k \in DOMAIN g : NumericValue(g[k].field, g[k].v) = ""}
        IN  /\ bad # {} => result = "Err"
            /\ (bad # {} /\ \A k \in 1..Min(bad) :
                                \A j \in 1..(k - 1) : g[j].field # g[k].field) =>
                  error.kind = IF g[Min(bad)].missing THEN "MissingValue"
                               ELSE "ParseInt"
            /\ result = "Ok" =>
                  \A k \in DOMAIN g :
                     opts[g[k].field] =
                        [some |-> TRUE, v |-> NumericValue(g[k].field, g[k].v)]
            /\ (result = "Ok" /\ calls = {}) =>
                  \A k \in DOMAIN g :
                     LET rec == IF g[k].field = "jobs" THEN ret.build ELSE ret.cov
                     IN  rec.opts[g[k].field].some

\* 2^32 accepted for a u64 field and 07 read as 7 for jobs
C22_Witness ==
    /\ result = "Ok"
    /\ calls = {}
    /\ ret.cov.opts["fail_uncovered_lines"] = [some |-> TRUE, v |-> "4294967296"]
    /\ ret.build.opts["jobs"] = [some |-> TRUE, v |-> "7"]

\* 2^32 refused for jobs, 2^64 for a u64 field
C22_WitnessRange ==
    /\ result = "Err"
    /\ error.kind = "ParseInt"
    /\ error.text \in {"4294967296", "18446744073709551616"}

----------------------------------------------------------------------------
(* C23 *)

\* the argument that selected the subcommand: the first bare value that is
\* a keyword, 0 if there is none
Chosen ==
    LET c == {k \in DOMAIN seen :
                 seen[k].kind = "Value" /\ from_str(seen[k].s) # "None"}
    IN  IF c = {} THEN 0 ELSE Min(c)

\* the arguments that are forwarded: the unrecognized options and the bare
\* values other than the one that selected the subcommand
ForwardedArgs ==
    {k \in DOMAIN seen :
        \/ Unrecognized(seen[k])
        \/ seen[k].kind = "Value" /\ k # Chosen}

\* the element argument k is forwarded as
ForwardedAs(k) ==
    IF seen[k].kind = "Value" THEN seen[k].s
    ELSE Forwarded(SubSeq(seen, 1, k), {"q"})

\* cargo_args without the verbosity token the parse itself made
WithoutSynthesized(ca) ==
    IF ca # <<>> /\ VToken(ca[Len(ca)]) THEN SubSeq(ca, 1, Len(ca) - 1) ELSE ca

\* the tokens that are the tool's own: those an own flag or option was
\* classified from, and those taken as the value of one
OwnPositions ==
    {k \in DOMAIN args :
        \A j \in DOMAIN seen : seen[j].at = k => j \notin ForwardedArgs /\ j # Chosen}

\* what C23 says of every successful parse, but for its last clause
OnlyForwarded ==
    LET ca == ret.cargo_args
        body == WithoutSynthesized(ca)
    IN  /\ Len(ca) - Len(body) <= 1
        /\ \A e \in Range(body) :
              /\ ~VToken(e)
              /\ Cardinality({n \in DOMAIN body : body[n] = e})
                    = Cardinality({k \in ForwardedArgs : ForwardedAs(k) = e})
        /\ Cardinality(ForwardedArgs) = Len(body)
        /\ \A k \in OwnPositions :
              args[k] \in Range(body) =>
                 \E j \in ForwardedArgs : ForwardedAs(j) = args[k]
        /\ Chosen # 0 => ret.subcommand = from_str(seen[Chosen].s)

\* C23 as stated: cargo_args holds only forwarded material, no own flag,
\* no value of an own option and not the token that selected the
\* subcommand; with only own flags on the command line cargo_args is empty
\* and the subcommand is Test.
C23_AsStated ==
    result = "Ok" =>
        /\ OnlyForwarded
        /\ OwnPositions = DOMAIN args =>
              ret.cargo_args = <<>> /\ ret.subcommand = "Test"

\* C23, amended: the same, but with only own flags on the command line
\* cargo_args holds nothing except the synthesized verbosity token, which
\* is there exactly when the verbosity flag was given more than once.
C23_OnlyForwarded ==
    result = "Ok" =>
        /\ OnlyForwarded
        /\ OwnPositions = DOMAIN args =>
              /\ WithoutSynthesized(ret.cargo_args) = <<>>
              /\ (ret.cargo_args # <<>>) = (verbose > 1)
              /\ ret.subcommand = "Test"

\* `out.json` once as the value of --output-path and once forwarded
C23_Witness ==
    /\ result = "Ok"
    /\ args = <<"--output-path", "out.json", "out.json", "run">>
    /\ ret.cargo_args = <<"out.json">>
    /\ ret.subcommand = "Run"

\* own flags only, the verbosity flag twice
C23_WitnessOwn ==
    /\ result = "Ok"
    /\ args = <<"--json", "-v", "-v">>
    /\ ret.cargo_args = <<"-v">>
    /\ ret.subcommand = "Test"

----------------------------------------------------------------------------
(* C24 *)

\* the tokens of a vector v from position 3 up to the first `--`, the
\* marker left out: all that two vectors agreeing up to and including the
\* first `--` have in common, the envelope apart
BeforeMarker(v) ==
    LET m == {k \in 3..Len(v) : v[k].text = "--"}
        end == IF m = {} THEN Len(v) ELSE Min(m) - 1
    IN  [k \in 1..(end - 2) |-> v[k + 2].text]

\* the loop of l.257-390 run to its end on the locals L
RECURSIVE Classify(_)
Classify(L) ==
    IF L.status # "go" THEN L
    ELSE LET n == next(L.parser) IN
         CASE n.kind = "Err" -> Fail([L EXCEPT !.parser = n.p], n.err)
           [] n.kind = "End" -> [L EXCEPT !.parser = n.p, !.status = "end"]
           [] OTHER -> Classify(match_arg([L EXCEPT !.parser = n.p], n.arg))

\* what is observable of a parse apart from `rest`: the outcome, the error
\* and the locals the Args is made of
Observable(res, e, L) ==
    [result |-> res, error |-> e, subcommand |-> L.subcommand,
     flags |-> L.flags, opts |-> L.opts, lists |-> L.lists,
     verbose |-> L.verbose, cargo_args |-> L.cargo_args]

\* the observable outcome as a function of the tokens a alone
OutcomeOf(a) ==
    LET L == Classify([parser |-> from_args(a), subcommand |-> "None",
                       flags |-> [f \in FlagNames |-> FALSE],
                       opts |-> [o \in OptNames |-> None],
                       lists |-> [m \in MultiNames |-> <<>>],
                       verbose |-> 0, cargo_args |-> <<>>,
                       status |-> "go", err |-> NoError])
        V == [L EXCEPT !.subcommand = IF @ = "None" THEN "Test" ELSE @]
    IN  IF L.status # "end" THEN Observable(L.status, L.err, L)
        ELSE IF exclude_alone(V.lists, V.flags)
        THEN Observable("Err", requires("--exclude", <<"--workspace">>), V)
        ELSE Observable("Ok", NoError,
                        [V EXCEPT !.cargo_args = propagate_verbose(@, V.verbose)])

\* C24: for a vector with valid-Unicode entries, the outcome and every
\* field but `rest` are a function of the tokens before the first `--`
\* alone, so two vectors that agree up to and including the first `--`
\* give the same outcome and the same values for every field except
\* `rest`, which is the tail as it stands.
C24_TailIgnored ==
    (pc = "done" /\ BadPositions = {}) =>
        LET o == OutcomeOf(BeforeMarker(argv)) IN
        /\ Observable(result, error, Locals) = o
        /\ (result = "Ok" /\ calls = {}) =>
              /\ ret = MakeArgs(o.subcommand, o.flags, o.opts, o.lists,
                                o.verbose, o.cargo_args, ret.rest)
              /\ FirstMarker # 0 =>
                    ret.rest = [k \in 1..(Len(argv) - FirstMarker) |->
                                   argv[FirstMarker + k].text]

\* a tail that would change the outcome were it classified: a second
\* `--release` and a keyword
C24_Witness ==
    /\ result = "Ok"
    /\ calls = {}
    /\ args = <<"--release">>
    /\ ret.rest = <<"--release", "run">>
    /\ ret.subcommand = "Test"
    /\ ret.cargo_args = <<>>

\* a failure before the marker with a tail after it
C24_WitnessFailure ==
    /\ result = "Err"
    /\ FirstMarker # 0
    /\ Len(argv) > FirstMarker
    /\ error.kind = "MultiArg"

----------------------------------------------------------------------------
(* C25 *)

\* a keyword stands before position k of the classified tokens
KeywordBefore25(k) == \E j \in 1..(k - 1) : from_str(args[j]) # "None"

\* the position right after `demangle` when it is the first keyword, 0
\* otherwise
AfterDemangle ==
    LET kw == {k \in DOMAIN args : from_str(args[k]) # "None"} IN
    IF kw # {} /\ args[Min(kw)] = "demangle" THEN Min(kw) + 1 ELSE 0

\* the name of an option token, without the value attached to it
OptionName(t) ==
    LET eq == FindFrom(t, "=", 1) IN
    IF eq = 0 THEN t ELSE SubSeq(t, 1, eq - 1)

\* the fault of the token at position k, taken by itself and what stands
\* before it: a token after `demangle`, a repeated flag, a value that is no
\* number, a version flag after a keyword; NoError when it has none
FaultAt(k) ==
    LET t == args[k]
        again(S) == t \in S /\ \E j \in 1..(k - 1) : args[j] \in S
    IN  CASE k = AfterDemangle /\ StartsWith(t, "-") ->
                Err("UnexpectedOption", 0, OptionName(t))
          [] k = AfterDemangle /\ ~StartsWith(t, "-") ->
                Err("UnexpectedArgument", 0, t)
          [] again({"--release", "-r"}) -> Err("MultiArg", 0, t)
          [] again({"--workspace"}) -> Err("MultiArg", 0, t)
          [] t = "--jobs=x" -> Err("ParseInt", 0, "x")
          [] t = "--version" /\ KeywordBefore25(k) ->
                Err("UnexpectedVersion", 0, "--version")
          [] OTHER -> NoError

\* the positions with a fault, and those where the parse exits with the
\* version printed
Faults == {k \in DOMAIN args : FaultAt(k) # NoError}
Exits == {k \in DOMAIN args : args[k] = "--version" /\ ~KeywordBefore25(k)}

\* C25: the failure returned is that of the leftmost offending token, and
\* the --exclude requires --workspace failure is returned only when every
\* classified token was consumed without a fault.
C25_StreamOrder ==
    pc = "done" =>
        /\ (Faults # {} /\ \A x \in Exits : Min(Faults) < x) =>
              result = "Err" /\ error = FaultAt(Min(Faults))
        /\ (result = "Err" /\ error.kind = "Requires") =>
              /\ Faults = {} /\ Exits = {}
              /\ parser.source = <<>>
              /\ {seen[k].at : k \in DOMAIN seen} = DOMAIN args
        /\ result = "Err" => Faults # {} \/ error.kind = "Requires"

\* --exclude without --workspace, then a bad value, then a repeated flag:
\* the bad value is the failure
C25_Witness ==
    /\ result = "Err"
    /\ args = <<"--exclude=a", "--jobs=x", "-r", "-r">>
    /\ error = Err("ParseInt", 0, "x")

\* --exclude without --workspace and no other fault
C25_WitnessRequires ==
    /\ result = "Err"
    /\ error.kind = "Requires"
    /\ Len(args) = 3

----------------------------------------------------------------------------
(* C26 *)

\* the forwarded elements of the first n arguments, in the order of the
\* input
RECURSIVE InInputOrder(_)
InInputOrder(n) ==
    IF n = 0 THEN <<>>
    ELSE InInputOrder(n - 1)
            \o (IF n \in ForwardedArgs THEN <<ForwardedAs(n)>> ELSE <<>>)

\* C26: the forwarded tokens stand in cargo_args in the order of the input,
\* those before the subcommand keyword and those after it alike, and the
\* synthesized verbosity token, when there is one, is the last element,
\* wherever the verbosity flags stood.
C26_Order ==
    result = "Ok" =>
        LET ca == ret.cargo_args
            fw == InInputOrder(Len(seen))
        IN  /\ \A k \in 1..(Len(seen) - 1) : seen[k].at <= seen[k + 1].at
            /\ verbose <= 1 => ca = fw
            /\ verbose > 1 =>
                  /\ ca = Append(fw, ca[Len(ca)])
                  /\ VToken(ca[Len(ca)])

\* forwarded tokens on both sides of the keyword and of the verbosity
\* flags
C26_Witness ==
    /\ result = "Ok"
    /\ args = <<"-v", "--foo", "run", "out.json">>
    /\ ret.cargo_args = <<"--foo", "out.json">>

\* the verbosity flags first, the token made of them last
C26_WitnessVerbose ==
    /\ result = "Ok"
    /\ args = <<"-v", "-v", "out.json", "--foo">>
    /\ ret.cargo_args = <<"out.json", "--foo", "-v">>

----------------------------------------------------------------------------
(* C27 *)

\* a token that is a flag and none of the tool's own, and a bare value
UnrecognizedToken(t) == StartsWith(t, "-") /\ t \notin {"--json", "--"}
BareToken(t) == ~StartsWith(t, "-")

\* the position of the first bare value that is a keyword, 0 if none
FirstKeyword ==
    LET kw == {k \in DOMAIN args : BareToken(args[k]) /\ from_str(args[k]) # "None"}
    IN  IF kw = {} THEN 0 ELSE Min(kw)

\* the tokens of the first n positions that are forwarded when every token
\* is classified by itself: all but the own flag and the first keyword
RECURSIVE EachByItself(_)
EachByItself(n) ==
    IF n = 0 THEN <<>>
    ELSE EachByItself(n - 1)
            \o (IF n = FirstKeyword \/ ~(UnrecognizedToken(args[n]) \/ BareToken(args[n]))
                THEN <<>> ELSE <<args[n]>>)

\* C27: an unrecognized flag never consumes the token that follows it: the
\* bare value after it is classified as a bare value of its own, so it
\* selects the subcommand when it is the first keyword of the line and is
\* forwarded as an element of its own otherwise.
C27_Detached ==
    /\ \A k \in DOMAIN seen :
          BareToken(args[seen[k].at]) =>
             seen[k].kind = "Value" /\ seen[k].s = args[seen[k].at]
    /\ result = "Ok" =>
          /\ \A p \in 1..(Len(args) - 1) :
                (UnrecognizedToken(args[p]) /\ BareToken(args[p + 1])) =>
                    /\ \E k \in DOMAIN seen : seen[k].at = p + 1
                    /\ \E n \in DOMAIN ret.cargo_args : ret.cargo_args[n] = args[p]
                    /\ p + 1 = FirstKeyword =>
                          ret.subcommand = from_str(args[p + 1])
          /\ ret.cargo_args = EachByItself(Len(args))
          /\ ret.subcommand = IF FirstKeyword = 0 THEN "Test"
                              ELSE from_str(args[FirstKeyword])

\* `--features run`: the flag forwarded alone, Run selected
C27_Witness ==
    /\ result = "Ok"
    /\ args = <<"--features", "run">>
    /\ ret.cargo_args = <<"--features">>
    /\ ret.subcommand = "Run"

\* a short flag followed by a bare value that is no keyword
C27_WitnessShort ==
    /\ result = "Ok"
    /\ args = <<"-x", "a", "run">>
    /\ ret.cargo_args = <<"-x", "a">>
    /\ ret.subcommand = "Run"

----------------------------------------------------------------------------
(* C28 *)

\* what a bundle of short flags t comes to, read letter by letter from
\* position pos: `q` is forwarded alone and the reading goes on, `v` and
\* `r` are the tool's own and the reading goes on, any other letter takes
\* the rest of the token as its value (one leading `=` dropped) and is
\* forwarded with it; `stuck` when a `=` stands right after a `q`
RECURSIVE Bundle(_, _)
Bundle(t, pos) ==
    IF pos > Len(t) THEN [fw |-> <<>>, v |-> 0, r |-> 0, stuck |-> FALSE]
    ELSE LET c == CharAt(t, pos)
             more == Bundle(t, pos + 1)
             after == SubSeq(t, pos + 1, Len(t))
         IN  CASE c = "q" /\ StartsWith(after, "=") ->
                     [fw |-> <<"-q">>, v |-> 0, r |-> 0, stuck |-> TRUE]
               [] c = "q" -> [more EXCEPT !.fw = <<"-q">> \o @]
               [] c = "v" -> [more EXCEPT !.v = @ + 1]
               [] c = "r" -> [more EXCEPT !.r = @ + 1]
               [] OTHER ->
                     [fw |-> <<"-" \o c \o (IF StartsWith(after, "=")
                                            THEN Tail(after) ELSE after)>>,
                      v |-> 0, r |-> 0, stuck |-> FALSE]

\* the bundles of the first n tokens together
RECURSIVE Bundles(_)
Bundles(n) ==
    IF n = 0 THEN [fw |-> <<>>, v |-> 0, r |-> 0, stuck |-> FALSE]
    ELSE LET a == Bundles(n - 1)
             b == Bundle(args[n], 2)
         IN  [fw |-> a.fw \o b.fw, v |-> a.v + b.v, r |-> a.r + b.r,
              stuck |-> a.stuck \/ b.stuck]

\* on success the bundles were read as Bundle reads them
ReadAsBundles ==
    result = "Ok" =>
        LET b == Bundles(Len(args)) IN
        /\ WithoutSynthesized(ret.cargo_args) = b.fw
        /\ verbose = b.v
        /\ flags["release"] = (b.r = 1)

\* C28 as stated: `q` in a bundle is forwarded alone as `-q` and what
\* follows it in the token is still classified as short flags, so nothing
\* that follows a `q` makes the parse fail; any other unrecognized short
\* flag takes the rest of the token as its value and is forwarded as one
\* `-fvalue` element.
C28_AsStated ==
    /\ ReadAsBundles
    /\ result = "Err" => error.kind = "MultiArg"

\* C28, amended: the same, except that a `=` right after `q` is neither
\* its value nor a flag: the parse fails with the unexpected-value error
\* naming `-q`.
C28_Bundles ==
    /\ ReadAsBundles
    /\ pc = "done" =>
          LET b == Bundles(Len(args)) IN
          /\ (result = "Ok") = (~b.stuck /\ b.r <= 1)
          /\ result = "Err" =>
                \/ error = Err("MultiArg", 0, "-r") /\ b.r > 1
                \/ error = Err("UnexpectedValue", 0, "-q") /\ b.stuck

\* `-qv`: `-q` forwarded and the verbosity counted; `-xqv`: one element
C28_Witness ==
    /\ result = "Ok"
    /\ args = <<"-qv", "-xqv">>
    /\ ret.cargo_args = <<"-q", "-xqv">>
    /\ ret.build.verbose = 1

\* `-q=1` refused after `-qxa` was forwarded as `-q` and `-xa`
C28_WitnessStuck ==
    /\ result = "Err"
    /\ args = <<"-qxa", "-q=1">>
    /\ cargo_args = <<"-q", "-xa", "-q">>
    /\ error = Err("UnexpectedValue", 0, "-q")

----------------------------------------------------------------------------
(* C29 *)

\* the options whose value may not be empty, by their locals
NonEmptyOpts == {"output_path", "output_dir", "ignore_filename_regex"}

\* the tokens that give an option that may be empty the empty string
EmptyAllowed == {"--profile=", "--manifest-path=", "--exclude=", "--workspace"}

\* C29 as stated: the empty string is refused as the value of
\* --output-path, --output-dir and --ignore-filename-regex, so no parse
\* that took one succeeds; it is accepted as the value of the other options
\* that take text: a line made of those only, with nothing repeated and
\* --workspace along with --exclude, succeeds with the empty values stored.
C29_AsStated ==
    /\ \A o \in NonEmptyOpts :
          (opts[o].some /\ opts[o].v = "") => result # "Ok"
    /\ (/\ pc = "done"
        /\ Range(args) \subseteq EmptyAllowed
        /\ \A j, k \in DOMAIN args :
              (j # k /\ args[j] = args[k]) => args[j] = "--exclude="
        /\ "--exclude=" \in Range(args) => "--workspace" \in Range(args)) =>
          /\ result = "Ok"
          /\ \A k \in DOMAIN lists["exclude"] : lists["exclude"][k] = ""
          /\ Len(lists["exclude"])
                = Cardinality({k \in DOMAIN args : args[k] = "--exclude="})
          /\ "--manifest-path=" \in Range(args) =>
                opts["manifest_path"] = [some |-> TRUE, v |-> ""]
          /\ "--profile=" \in Range(args) =>
                opts["profile"] = [some |-> TRUE, v |-> ""]

============================================================================
